---- MODULE Spec2Model ----
(***************************************************************************)
(* A model of tzif_parser: TimeZoneInfo.resolve with its one-slot cache,   *)
(* the TZif body lookup helpers and the POSIX footer rule evaluation.      *)
(*                                                                         *)
(* A datetime is the record [d, s, us]: d the proleptic Gregorian ordinal  *)
(* of the date (1 = 0001-01-01, as datetime.toordinal), s the second of    *)
(* the day, us the microsecond.  All instants of the engine are UTC; a     *)
(* naive datetime has the same shape.  A raised exception is the record    *)
(* [exc |-> name]; Python's None is NoneVal where the alternative is a     *)
(* record, <<>> where it is a sequence or an optional integer <<n>>.       *)
(*                                                                         *)
(* Spec and SpecPosix resolve instants on enumerated zones; SpecLeap does  *)
(* so on zones with a leap-second table; SpecBody decodes sections of a    *)
(* file and looks instants and abbreviations up in the body; SpecFooter    *)
(* calls the footer parser, a text being the sequence of its characters.   *)
(***************************************************************************)
EXTENDS Integers, Sequences, FiniteSets, TLC

\* ---------------------------------------------------------------- bounds

\* Longest transition list of an enumerated body.
MaxTransitions == 3

\* Longest transition list of a body that carries a leap-second table.
MaxLeapTransitions == 2

\* Most records of a section of the file handed to the decoder.
MaxRecords == 2

\* Most time-types of a body built for its abbreviations.
MaxTypes == 3

\* ------------------------------------------------------- values and errors

NoneVal == [none |-> TRUE]

IsNone(x) == "none" \in DOMAIN x

Exc(name) == [exc |-> name]

IsExc(x) == "exc" \in DOMAIN x

\* The NUL byte of a text; every other character of a text is a
\* one-character string.
NUL == "\\0"

\* ---------------------------------------------------- datetime arithmetic

MINYEAR == 1

MAXYEAR == 9999

_is_leap_year(year) == year % 4 = 0 /\ (year % 100 # 0 \/ year % 400 = 0)

DaysBeforeYear(year) ==
    LET y == year - 1
    IN  y * 365 + (y \div 4) - (y \div 100) + (y \div 400)

DaysInMonth(year, month) ==
    IF month = 2 THEN (IF _is_leap_year(year) THEN 29 ELSE 28)
    ELSE IF month \in {4, 6, 9, 11} THEN 30 ELSE 31

DaysBeforeMonth(year, month) ==
    <<0, 31, 59, 90, 120, 151, 181, 212, 243, 273, 304, 334>>[month]
    + (IF month > 2 /\ _is_leap_year(year) THEN 1 ELSE 0)

Ymd2Ord(year, month, day) ==
    DaysBeforeYear(year) + DaysBeforeMonth(year, month) + day

MaxOrdinal == Ymd2Ord(MAXYEAR, 12, 31)

\* datetime.year of an ordinal, as CPython's _ord2ymd computes it.
YearOfOrd(ordinal) ==
    LET n0   == ordinal - 1
        n400 == n0 \div 146097
        r400 == n0 % 146097
        n100 == r400 \div 36524
        r100 == r400 % 36524
        n4   == r100 \div 1461
        r4   == r100 % 1461
        n1   == r4 \div 365
        year == n400 * 400 + 1 + n100 * 100 + n4 * 4 + n1
    IN  IF n1 = 4 \/ n100 = 4 THEN year - 1 ELSE year

\* datetime.weekday(): Monday = 0 ... Sunday = 6.
WeekdayOfOrd(ordinal) == (ordinal + 6) % 7

DateTime(d, s, us) == [d |-> d, s |-> s, us |-> us]

\* datetime(year, month, day): ValueError outside MINYEAR..MAXYEAR.
NewDate(year, month, day) ==
    IF year < MINYEAR \/ year > MAXYEAR \/ month < 1 \/ month > 12
       \/ day < 1 \/ day > DaysInMonth(year, month)
    THEN Exc("ValueError")
    ELSE DateTime(Ymd2Ord(year, month, day), 0, 0)

\* datetime(year, month, day, hour, minute, second) of the query instants.
At(year, month, day, hour, minute, second) ==
    DateTime(Ymd2Ord(year, month, day), hour * 3600 + minute * 60 + second, 0)

\* datetime + timedelta(seconds=secs): OverflowError outside the date range.
AddSeconds(dt, secs) ==
    LET tot == dt.s + secs
        d2  == dt.d + (tot \div 86400)
    IN  IF d2 < 1 \/ d2 > MaxOrdinal
        THEN Exc("OverflowError")
        ELSE DateTime(d2, tot % 86400, dt.us)

\* timedelta(days=, hours=, minutes=, seconds=) in seconds.
TimeDelta(days, hours, minutes, seconds) ==
    ((days * 24 + hours) * 60 + minutes) * 60 + seconds

\* datetime comparison a < b and a <= b.
Lt(a, b) ==
    \/ a.d < b.d
    \/ a.d = b.d /\ a.s < b.s
    \/ a.d = b.d /\ a.s = b.s /\ a.us < b.us

Le(a, b) == a = b \/ Lt(a, b)

\* ------------------------------------------------------- POSIX date rules

PosixTzDateTime(month, week, weekday, hour, minute, second) ==
    [kind |-> "M", month |-> month, week |-> week, weekday |-> weekday,
     hour |-> hour, minute |-> minute, second |-> second]

PosixTzJulianDateTime(day_of_year, hour, minute, second) ==
    [kind |-> "J", day_of_year |-> day_of_year,
     hour |-> hour, minute |-> minute, second |-> second]

PosixTzOrdinalDateTime(day_index, hour, minute, second) ==
    [kind |-> "N", day_index |-> day_index,
     hour |-> hour, minute |-> minute, second |-> second]

\* datetime.replace(hour=, minute=, second=, microsecond=0): the fields are
\* assigned, so a value outside its calendar range is a ValueError.
ReplaceTime(dt, hour, minute, second) ==
    IF hour \notin 0..23 \/ minute \notin 0..59 \/ second \notin 0..59
    THEN Exc("ValueError")
    ELSE DateTime(dt.d, hour * 3600 + minute * 60 + second, 0)

\* PosixTzDateTime.to_datetime
MonthRuleToDatetime(rule, year) ==
    LET py_weekday     == (rule.weekday - 1) % 7
        first_of_month == NewDate(year, rule.month, 1)
    IN  IF IsExc(first_of_month) THEN first_of_month
        ELSE
        LET first_wd         == WeekdayOfOrd(first_of_month.d)
            delta            == (py_weekday - first_wd) % 7
            first_occurrence == AddSeconds(first_of_month, TimeDelta(delta, 0, 0, 0))
            next_month_first == IF rule.month = 12
                                THEN NewDate(year + 1, 1, 1)
                                ELSE NewDate(year, rule.month + 1, 1)
        IN  IF rule.week < 5
            THEN LET target == AddSeconds(first_occurrence,
                                          TimeDelta(7 * (rule.week - 1), 0, 0, 0))
                 IN  IF IsExc(target) THEN target
                     ELSE ReplaceTime(target, rule.hour, rule.minute, rule.second)
            ELSE IF IsExc(next_month_first) THEN next_month_first
            ELSE LET last_of_month == AddSeconds(next_month_first, TimeDelta(-1, 0, 0, 0))
                     last_wd       == WeekdayOfOrd(last_of_month.d)
                     back          == (last_wd - py_weekday) % 7
                     target        == AddSeconds(last_of_month, TimeDelta(-back, 0, 0, 0))
                 IN  ReplaceTime(target, rule.hour, rule.minute, rule.second)

\* A variant of the Julian rule that counts February 29.
JulianRuleCountsLeapDay(rule, year) ==
    LET base == NewDate(year, 1, 1)
    IN  IF IsExc(base) THEN base
        ELSE AddSeconds(base, TimeDelta(rule.day_of_year - 1, rule.hour, rule.minute,
                                        rule.second))

\* PosixTzJulianDateTime.to_datetime
JulianRuleToDatetime(rule, year) ==
    LET base      == NewDate(year, 1, 1)
        day_index == IF _is_leap_year(year) /\ rule.day_of_year >= 60
                     THEN rule.day_of_year
                     ELSE rule.day_of_year - 1
    IN  IF IsExc(base) THEN base
        ELSE AddSeconds(base, TimeDelta(day_index, rule.hour, rule.minute, rule.second))

\* PosixTzOrdinalDateTime.to_datetime
OrdinalRuleToDatetime(rule, year) ==
    LET base == NewDate(year, 1, 1)
    IN  IF IsExc(base) THEN base
        ELSE AddSeconds(base, TimeDelta(rule.day_index, rule.hour, rule.minute, rule.second))

\* rule.to_datetime(year), dispatched on the rule's class.
to_datetime(rule, year) ==
    IF rule.kind = "M" THEN MonthRuleToDatetime(rule, year)
    ELSE IF rule.kind = "J" THEN JulianRuleToDatetime(rule, year)
    ELSE OrdinalRuleToDatetime(rule, year)

\* ------------------------------------------------------------ POSIX footer

\* A PosixTzInfo.  dst_abbrev <<>> and dst_offset_secs <<>> stand for None.
PosixTzInfo(standard_abbrev, utc_offset_secs, dst_abbrev, dst_offset_secs, dst_start, dst_end) ==
    [standard_abbrev |-> standard_abbrev, utc_offset_secs |-> utc_offset_secs,
     dst_abbrev |-> dst_abbrev, dst_offset_secs |-> dst_offset_secs,
     dst_start |-> dst_start, dst_end |-> dst_end]

\* -------------------------------------------------- POSIX footer, as text
\* A text is the sequence of its characters, each a one-character string.

DigitChars == <<"0", "1", "2", "3", "4", "5", "6", "7", "8", "9">>

\* \d under re.ASCII, and str.isdigit on the characters of the model.
IsDigit(c) == \E k \in 1..10 : DigitChars[k] = c

\* [a-zA-Z]
Letters ==
    {"a", "b", "c", "d", "e", "f", "g", "h", "i", "j", "k", "l", "m", "n", "o", "p", "q", "r", "s", "t", "u", "v", "w", "x", "y", "z"}
    \cup {"A", "B", "C", "D", "E", "F", "G", "H", "I", "J", "K", "L", "M", "N", "O", "P", "Q", "R", "S", "T", "U", "V", "W", "X", "Y", "Z"}

\* int(text) for a run of decimal digits; int(None or 0) is 0.
RECURSIVE IntOfDigits(_)
IntOfDigits(text) ==
    IF text = <<>> THEN 0
    ELSE IntOfDigits(SubSeq(text, 1, Len(text) - 1)) * 10
         + (CHOOSE k \in 1..10 : DigitChars[k] = text[Len(text)]) - 1

\* The n characters of text from position pos are digits.
DigitsAt(text, pos, n) ==
    pos + n - 1 <= Len(text) /\ \A k \in pos..(pos + n - 1) : IsDigit(text[k])

\* The number of characters \d{1,3} takes at position h0 of text, 0 when it
\* does not match.
HourLen(text, h0) ==
    IF DigitsAt(text, h0, 3) THEN 3
    ELSE IF DigitsAt(text, h0, 2) THEN 2
    ELSE IF DigitsAt(text, h0, 1) THEN 1 ELSE 0

\* :\d{2} at position pos of text.
ColonField(text, pos) ==
    pos <= Len(text) /\ text[pos] = ":" /\ DigitsAt(text, pos + 1, 2)

\* The groups of (?P<sign>[+-])?(?P<h>\d{1,3})(:(?P<m>\d{2})(:(?P<s>\d{2}))?)?
\* for the hours at h0..m0-1 (<<>> for a group that took no part) and the
\* position after the match, or None when there are no hours.
OffsetGroups(text, start, h0, m0) ==
    IF m0 = h0 THEN NoneVal
    ELSE IF ColonField(text, m0) /\ ColonField(text, m0 + 3)
    THEN [sign |-> IF h0 > start THEN text[start] ELSE "",
          h |-> SubSeq(text, h0, m0 - 1), m |-> SubSeq(text, m0 + 1, m0 + 2),
          s |-> SubSeq(text, m0 + 4, m0 + 5), end |-> m0 + 6]
    ELSE IF ColonField(text, m0)
    THEN [sign |-> IF h0 > start THEN text[start] ELSE "",
          h |-> SubSeq(text, h0, m0 - 1), m |-> SubSeq(text, m0 + 1, m0 + 2),
          s |-> <<>>, end |-> m0 + 3]
    ELSE [sign |-> IF h0 > start THEN text[start] ELSE "",
          h |-> SubSeq(text, h0, m0 - 1), m |-> <<>>, s |-> <<>>, end |-> m0]

\* The match of the offset pattern that starts at position start of text
\* and is as long as it can be, or None.
OffsetMatch(text, start) ==
    IF start <= Len(text) /\ text[start] \in {"+", "-"}
    THEN OffsetGroups(text, start, start + 1, start + 1 + HourLen(text, start + 1))
    ELSE OffsetGroups(text, start, start, start + HourLen(text, start))

\* A match that ends before position n, or None.
EndsAt(mt, n) ==
    IF IsNone(mt) THEN NoneVal ELSE IF mt.end = n THEN mt ELSE NoneVal

\* offset_parser.fullmatch(text): the match, or None.
OffsetFullMatch(text) == EndsAt(OffsetMatch(text, 1), Len(text) + 1)

\* A variant of OffsetOfMatch that gives the seconds the sign of the text.
OffsetOfMatchSignKept(offset_match) ==
    IF IsNone(offset_match) THEN Exc("ValueError")
    ELSE LET h == IntOfDigits(offset_match.h)
             m == IntOfDigits(offset_match.m)
             s == IntOfDigits(offset_match.s)
         IN  IF h > 24 THEN Exc("ValueError")
             ELSE IF ~(0 <= m /\ m < 60 /\ 0 <= s /\ s < 60) THEN Exc("ValueError")
             ELSE IF h = 24 /\ (m # 0 \/ s # 0) THEN Exc("ValueError")
             ELSE [value |-> IF offset_match.sign = "-" THEN -(h * 3600 + m * 60 + s)
                             ELSE h * 3600 + m * 60 + s]

\* _read_offset from offset_match on: the POSIX constraints and the total,
\* negated unless the sign is "-".
OffsetOfMatch(offset_match) ==
    IF IsNone(offset_match) THEN Exc("ValueError")
    ELSE LET h == IntOfDigits(offset_match.h)
             m == IntOfDigits(offset_match.m)
             s == IntOfDigits(offset_match.s)
         IN  IF h > 24 THEN Exc("ValueError")
             ELSE IF ~(0 <= m /\ m < 60 /\ 0 <= s /\ s < 60) THEN Exc("ValueError")
             ELSE IF h = 24 /\ (m # 0 \/ s # 0) THEN Exc("ValueError")
             ELSE [value |-> IF offset_match.sign # "-" THEN -(h * 3600 + m * 60 + s)
                             ELSE h * 3600 + m * 60 + s]

\* PosixTzInfo._read_offset: [value |-> seconds], or the ValueError raised.
_read_offset(posix_offset) == OffsetOfMatch(OffsetFullMatch(posix_offset))

\* A variant of TransitionTimeOfMatch that negates the hours alone.
TransitionTimeHoursNegated(match) ==
    IF IsNone(match) THEN Exc("ValueError")
    ELSE LET h == IntOfDigits(match.h)
             m == IntOfDigits(match.m)
             s == IntOfDigits(match.s)
         IN  IF h > 167 THEN Exc("ValueError")
             ELSE IF ~(0 <= m /\ m < 60 /\ 0 <= s /\ s < 60) THEN Exc("ValueError")
             ELSE IF match.sign = "-" THEN [h |-> -h, m |-> m, s |-> s]
             ELSE [h |-> h, m |-> m, s |-> s]

\* _read_dst_transition_time from match on: the bounds, and the three parts
\* negated when the sign is "-".
TransitionTimeOfMatch(match) ==
    IF IsNone(match) THEN Exc("ValueError")
    ELSE LET h == IntOfDigits(match.h)
             m == IntOfDigits(match.m)
             s == IntOfDigits(match.s)
         IN  IF h > 167 THEN Exc("ValueError")
             ELSE IF ~(0 <= m /\ m < 60 /\ 0 <= s /\ s < 60) THEN Exc("ValueError")
             ELSE IF match.sign = "-" THEN [h |-> -h, m |-> -m, s |-> -s]
             ELSE [h |-> h, m |-> m, s |-> s]

\* PosixTzInfo._read_dst_transition_time: (h, m, s), or the ValueError raised.
_read_dst_transition_time(time_str) == TransitionTimeOfMatch(OffsetFullMatch(time_str))

\* int(text) for a text of the characters of the model: an optional sign
\* and one or more digits give [value |-> n], anything else a ValueError.
IntOfText(text) ==
    LET signed == text # <<>> /\ text[1] \in {"+", "-"}
        digits == IF signed THEN Tail(text) ELSE text
    IN  IF digits = <<>> \/ ~DigitsAt(digits, 1, Len(digits)) THEN Exc("ValueError")
        ELSE [value |-> IF signed /\ text[1] = "-" THEN -IntOfDigits(digits)
                        ELSE IntOfDigits(digits)]

\* The rule of a date that starts with M: M(\d{1,2})\.(\d)\.(\d) and its
\* ranges.
MonthRuleOfText(date, trans_time) ==
    LET n == IF DigitsAt(date, 2, 2) THEN 2 ELSE IF DigitsAt(date, 2, 1) THEN 1 ELSE 0
    IN  IF \/ n = 0
           \/ Len(date) # n + 5
           \/ date[n + 2] # "."
           \/ ~IsDigit(date[n + 3])
           \/ date[n + 4] # "."
           \/ ~IsDigit(date[n + 5])
        THEN Exc("ValueError")
        ELSE LET month   == IntOfDigits(SubSeq(date, 2, n + 1))
                 week    == IntOfDigits(<<date[n + 3]>>)
                 weekday == IntOfDigits(<<date[n + 5]>>)
             IN  IF ~(1 <= month /\ month <= 12 /\ 1 <= week /\ week <= 5
                      /\ 0 <= weekday /\ weekday <= 6)
                 THEN Exc("ValueError")
                 ELSE PosixTzDateTime(month, week, weekday,
                                      trans_time.h, trans_time.m, trans_time.s)

\* The rule of a date that starts with J.
JulianRuleOfText(date, trans_time) ==
    LET n == IntOfText(Tail(date))
    IN  IF IsExc(n) THEN n
        ELSE IF ~(1 <= n.value /\ n.value <= 365) THEN Exc("ValueError")
        ELSE PosixTzJulianDateTime(n.value, trans_time.h, trans_time.m, trans_time.s)

\* The rule of a date that is all digits.
OrdinalRuleOfText(date, trans_time) ==
    LET n == IntOfDigits(date)
    IN  IF ~(0 <= n /\ n <= 365) THEN Exc("ValueError")
        ELSE PosixTzOrdinalDateTime(n, trans_time.h, trans_time.m, trans_time.s)

\* The position of the first sep in text, or 0.
FirstIndexOf(text, sep) ==
    IF \E k \in 1..Len(text) : text[k] = sep
    THEN CHOOSE k \in 1..Len(text) : text[k] = sep /\ \A j \in 1..(k - 1) : text[j] # sep
    ELSE 0

\* The rule of a date and a time already read: the time's error first,
\* None for no date and for a date of no known form.
RuleOfDate(date, trans_time) ==
    IF IsExc(trans_time) THEN trans_time
    ELSE IF date = <<>> THEN NoneVal
    ELSE IF date[1] = "M" THEN MonthRuleOfText(date, trans_time)
    ELSE IF date[1] = "J" THEN JulianRuleOfText(date, trans_time)
    ELSE IF DigitsAt(date, 1, Len(date)) THEN OrdinalRuleOfText(date, trans_time)
    ELSE NoneVal

\* PosixTzInfo._read_dst_transition_datetime: the rule, None, or the
\* ValueError raised.  The time is what follows the first "/", 02:00:00
\* when nothing does.
_read_dst_transition_datetime(posix_datetime) ==
    LET slash == FirstIndexOf(posix_datetime, "/")
    IN  RuleOfDate(IF slash = 0 THEN posix_datetime
                   ELSE SubSeq(posix_datetime, 1, slash - 1),
                   IF slash = 0 \/ slash = Len(posix_datetime)
                   THEN [h |-> 2, m |-> 0, s |-> 0]
                   ELSE _read_dst_transition_time(
                            SubSeq(posix_datetime, slash + 1, Len(posix_datetime))))

\* text.split(sep)
RECURSIVE Split(_, _)
Split(text, sep) ==
    LET k == FirstIndexOf(text, sep)
    IN  IF k = 0 THEN <<text>>
        ELSE <<SubSeq(text, 1, k - 1)>> \o Split(SubSeq(text, k + 1, Len(text)), sep)

\* text.rstrip(chars) and text.strip(chars)
RECURSIVE RStrip(_, _)
RStrip(text, chars) ==
    IF text # <<>> /\ text[Len(text)] \in chars
    THEN RStrip(SubSeq(text, 1, Len(text) - 1), chars)
    ELSE text

RECURSIVE LStrip(_, _)
LStrip(text, chars) ==
    IF text # <<>> /\ text[1] \in chars THEN LStrip(Tail(text), chars) ELSE text

Strip(text, chars) == LStrip(RStrip(text, chars), chars)

\* The character classes of local_tz_parser: [^<0-9:.+-], [^0-9:.+-] and
\* [a-zA-Z0-9+-].
StdClass(c) == c \notin {"<", ":", ".", "+", "-"} /\ ~IsDigit(c)

DstClass(c) == c \notin {":", ".", "+", "-"} /\ ~IsDigit(c)

QuotedClass(c) == c \in Letters \/ IsDigit(c) \/ c \in {"+", "-"}

\* The position after the longest run of characters of a class that starts
\* at position pos, member telling of each position whether its character
\* is of the class.
RunEnd(member, pos) ==
    IF \A k \in pos..Len(member) : member[k] THEN Len(member) + 1
    ELSE CHOOSE k \in pos..Len(member) :
             ~member[k] /\ \A j \in pos..(k - 1) : member[j]

\* The position after <[a-zA-Z0-9+-]+> matched at position pos, or 0.
QuotedEnd(text, pos) ==
    LET e == RunEnd([k \in 1..Len(text) |-> QuotedClass(text[k])], pos + 1)
    IN  IF pos <= Len(text) /\ text[pos] = "<" /\ e > pos + 1 /\ e <= Len(text)
           /\ text[e] = ">"
        THEN e + 1 ELSE 0

\* An optional offset at position pos runs to the end of the text.
OffsetToEnd(text, pos) ==
    pos = Len(text) + 1 \/ ~IsNone(EndsAt(OffsetMatch(text, pos), Len(text) + 1))

\* The groups of a match with std and stdoff whose dst ends before position
\* e1 or, when that leads to no match, before position e2 (0 for none).
DstGroups(text, std, stdoff, pos, e1, e2) ==
    IF e1 > pos /\ OffsetToEnd(text, e1)
    THEN [std |-> std, stdoff |-> stdoff, dst |-> SubSeq(text, pos, e1 - 1),
          dstoff |-> SubSeq(text, e1, Len(text))]
    ELSE IF e2 # 0 /\ OffsetToEnd(text, e2)
    THEN [std |-> std, stdoff |-> stdoff, dst |-> SubSeq(text, pos, e2 - 1),
          dstoff |-> SubSeq(text, e2, Len(text))]
    ELSE NoneVal

\* The groups of a match whose stdoff is the match mt at position pos, or
\* None; the dst that follows is the run of [^0-9:.+-] first, then the
\* quoted form.
AfterStdOff(text, std, pos, mt) ==
    IF IsNone(mt) THEN NoneVal
    ELSE IF mt.end = Len(text) + 1
    THEN [std |-> std, stdoff |-> SubSeq(text, pos, Len(text)), dst |-> <<>>,
          dstoff |-> <<>>]
    ELSE DstGroups(text, std, SubSeq(text, pos, mt.end - 1), mt.end,
                   RunEnd([k \in 1..Len(text) |-> DstClass(text[k])], mt.end),
                   QuotedEnd(text, mt.end))

\* The groups of a match whose std ends before position e (0 or 1 for no
\* std; <<>> for a group that took no part), or None.
AfterStdMatch(text, e) ==
    IF e <= 1 THEN NoneVal
    ELSE IF e = Len(text) + 1
    THEN [std |-> text, stdoff |-> <<>>, dst |-> <<>>, dstoff |-> <<>>]
    ELSE AfterStdOff(text, SubSeq(text, 1, e - 1), e, OffsetMatch(text, e))

\* local_tz_parser.fullmatch(text): the groups, or None.
LocalTzMatch(text) ==
    IF text = <<>> THEN NoneVal
    ELSE AfterStdMatch(text, IF text[1] = "<" THEN QuotedEnd(text, 1)
                             ELSE RunEnd([k \in 1..Len(text) |-> StdClass(text[k])], 1))

\* The end of PosixTzInfo.read: the offsets and the two rules, each of which
\* may raise, in the order of the code.
ReadFields(mt, utc_offset, dst_offset, dst_start, dst_end) ==
    IF IsExc(utc_offset) THEN utc_offset
    ELSE IF IsExc(dst_offset) THEN dst_offset
    ELSE IF IsExc(dst_start) THEN dst_start
    ELSE IF IsExc(dst_end) THEN dst_end
    ELSE PosixTzInfo(Strip(mt.std, {"<", ">"}), utc_offset.value,
                     Strip(mt.dst, {"<", ">"}),
                     IF mt.dstoff # <<>> THEN <<dst_offset.value>>
                     ELSE IF Strip(mt.dst, {"<", ">"}) # <<>> THEN <<utc_offset.value + 3600>>
                     ELSE <<>>,
                     dst_start, dst_end)

\* PosixTzInfo.read from the match of the first part on.
ReadMatched(local_tz_match, dst_start, dst_end) ==
    IF IsNone(local_tz_match) THEN Exc("ValueError")
    ELSE IF local_tz_match.stdoff = <<>> THEN Exc("ValueError")
    ELSE ReadFields(local_tz_match, _read_offset(local_tz_match.stdoff),
                    IF local_tz_match.dstoff # <<>>
                    THEN _read_offset(local_tz_match.dstoff)
                    ELSE [value |-> 0],
                    _read_dst_transition_datetime(dst_start),
                    _read_dst_transition_datetime(dst_end))

\* PosixTzInfo.read from the parts of the line on: they are unpacked into
\* three names.
ReadParts(parts) ==
    IF Len(parts) # 3 THEN Exc("ValueError")
    ELSE ReadMatched(LocalTzMatch(parts[1]), parts[2], parts[3])

\* PosixTzInfo.read, posix_line the second line of what is left of the
\* file ("" at the end of the file): the PosixTzInfo, None, or the
\* ValueError raised.
read(posix_line) ==
    LET posix_string == RStrip(posix_line, {"\n", NUL})
    IN  IF posix_line = <<>> THEN NoneVal
        ELSE IF posix_string = <<>> THEN NoneVal
        ELSE ReadParts(IF FirstIndexOf(posix_string, ",") # 0
                       THEN Split(posix_string, ",")
                       ELSE <<posix_string, <<>>, <<>>>>)

\* ------------------------------------------------- POSIX footer state

\* A variant of _posix_offsets whose default DST offset is the standard one.
PosixOffsetsWithoutDefault(f) ==
    LET std        == f.utc_offset_secs
        dst_offset == IF f.dst_offset_secs # <<>> THEN f.dst_offset_secs[1]
                      ELSE std
    IN  [std |-> std, dst_offset |-> dst_offset, dst_delta |-> dst_offset - std]

\* TimeZoneInfo._posix_offsets: (standard offset, dst offset, dst delta).
_posix_offsets(f) ==
    LET std        == f.utc_offset_secs
        dst_offset == IF f.dst_offset_secs # <<>> THEN f.dst_offset_secs[1]
                      ELSE std + 3600
    IN  [std |-> std, dst_offset |-> dst_offset, dst_delta |-> dst_offset - std]

\* A faulty variant of PosixStateBetween: the range test alone, without the
\* branch for a DST period that wraps the end of the year.
PosixStateBetweenNoWrap(f, o, local_std, start, end) ==
    IF Le(start, local_std) /\ Lt(local_std, end)
    THEN [off |-> o.dst_offset, delta |-> o.dst_delta,
          abbr |-> IF f.dst_abbrev # <<>> THEN f.dst_abbrev
                   ELSE f.standard_abbrev,
          in_dst |-> TRUE]
    ELSE [off |-> o.std, delta |-> 0, abbr |-> f.standard_abbrev,
          in_dst |-> FALSE]

\* A variant of PosixStateBetween that reports the DST delta in standard
\* time too.
PosixStateBetweenDeltaKept(f, o, local_std, start, end) ==
    LET in_dst == IF Lt(start, end)
                  THEN Le(start, local_std) /\ Lt(local_std, end)
                  ELSE Le(start, local_std) \/ Lt(local_std, end)
    IN  IF in_dst
        THEN [off |-> o.dst_offset, delta |-> o.dst_delta,
              abbr |-> IF f.dst_abbrev # <<>> THEN f.dst_abbrev
                       ELSE f.standard_abbrev,
              in_dst |-> TRUE]
        ELSE [off |-> o.std, delta |-> o.dst_delta, abbr |-> f.standard_abbrev,
              in_dst |-> FALSE]

\* The last lines of _posix_footer_state (120-135): DST membership of
\* local_std between the year's start and end, both in local standard time,
\* and the state that follows from it.
PosixStateBetween(f, o, local_std, start, end) ==
    LET in_dst == IF Lt(start, end)
                  THEN Le(start, local_std) /\ Lt(local_std, end)
                  ELSE Le(start, local_std) \/ Lt(local_std, end)
    IN  IF in_dst
        THEN [off |-> o.dst_offset, delta |-> o.dst_delta,
              abbr |-> IF f.dst_abbrev # <<>> THEN f.dst_abbrev
                       ELSE f.standard_abbrev,
              in_dst |-> TRUE]
        ELSE [off |-> o.std, delta |-> 0, abbr |-> f.standard_abbrev,
              in_dst |-> FALSE]

\* Lines 118-119 of _posix_footer_state, given what the two to_datetime
\* calls returned or raised: an exception propagates.
PosixStateOfRules(f, o, local_std, start, end_dst) ==
    IF IsExc(start) THEN start
    ELSE IF IsExc(end_dst) THEN end_dst
    ELSE IF IsExc(AddSeconds(end_dst, -o.dst_delta))
    THEN AddSeconds(end_dst, -o.dst_delta)
    ELSE PosixStateBetween(f, o, local_std, start,
                           AddSeconds(end_dst, -o.dst_delta))

\* _posix_footer_state from local_std on (lines 116-135).
PosixStateAtLocal(f, o, local_std) ==
    IF IsExc(local_std) THEN local_std
    ELSE IF IsNone(f.dst_start) \/ IsNone(f.dst_end)
    THEN [off |-> o.std, delta |-> 0, abbr |-> f.standard_abbrev,
          in_dst |-> FALSE]
    ELSE PosixStateOfRules(f, o, local_std,
                           to_datetime(f.dst_start, YearOfOrd(local_std.d)),
                           to_datetime(f.dst_end, YearOfOrd(local_std.d)))

\* TimeZoneInfo._posix_footer_state: None without a footer, else the record
\* (off, delta, abbr, in_dst); an exception of the rule evaluation propagates.
_posix_footer_state(f, dt_utc) ==
    IF IsNone(f) THEN NoneVal
    ELSE PosixStateAtLocal(f, _posix_offsets(f),
                           AddSeconds(dt_utc, f.utc_offset_secs))

\* A variant of CandidatesOfRules that keeps a boundary equal to local_std.
CandidatesOfRulesInclusive(o, local_std, start_y, end_y_dst) ==
    LET end_y_std  == AddSeconds(end_y_dst, -o.dst_delta)
        from_start == IF Le(local_std, start_y)
                      THEN <<[key |-> start_y, local_wall |-> start_y,
                              boundary_offset |-> o.std]>>
                      ELSE <<>>
    IN  IF IsExc(end_y_std) THEN [raised |-> end_y_std, cands |-> <<>>]
        ELSE IF Le(local_std, end_y_std)
        THEN [raised |-> NoneVal,
              cands  |-> from_start \o <<[key |-> end_y_std, local_wall |-> end_y_dst,
                                          boundary_offset |-> o.dst_offset]>>]
        ELSE [raised |-> NoneVal, cands |-> from_start]

\* What one year of the loop in _next_posix_transition_utc appends (lines
\* 169-174), given the year's start_y and end_y_dst, as [raised, cands].
CandidatesOfRules(o, local_std, start_y, end_y_dst) ==
    LET end_y_std  == AddSeconds(end_y_dst, -o.dst_delta)
        from_start == IF Lt(local_std, start_y)
                      THEN <<[key |-> start_y, local_wall |-> start_y,
                              boundary_offset |-> o.std]>>
                      ELSE <<>>
    IN  IF IsExc(end_y_std) THEN [raised |-> end_y_std, cands |-> <<>>]
        ELSE IF Lt(local_std, end_y_std)
        THEN [raised |-> NoneVal,
              cands  |-> from_start \o <<[key |-> end_y_std, local_wall |-> end_y_dst,
                                          boundary_offset |-> o.dst_offset]>>]
        ELSE [raised |-> NoneVal, cands |-> from_start]

\* The try/except of the loop (lines 162-167), given what the two
\* to_datetime calls returned or raised: a ValueError skips the year (no
\* candidate), another exception is raised to the caller.
TryYear(o, local_std, start_y, end_y_dst) ==
    IF start_y = Exc("ValueError") THEN [raised |-> NoneVal, cands |-> <<>>]
    ELSE IF IsExc(start_y) THEN [raised |-> start_y, cands |-> <<>>]
    ELSE IF end_y_dst = Exc("ValueError") THEN [raised |-> NoneVal, cands |-> <<>>]
    ELSE IF IsExc(end_y_dst) THEN [raised |-> end_y_dst, cands |-> <<>>]
    ELSE CandidatesOfRules(o, local_std, start_y, end_y_dst)

\* One iteration of the loop over (year, year + 1).
YearCandidates(f, o, local_std, y) ==
    TryYear(o, local_std, to_datetime(f.dst_start, y), to_datetime(f.dst_end, y))

\* min(candidates, key=lambda x: x[0]): the first candidate of least key.
MinCandidate(candidates) ==
    LET i == CHOOSE i \in 1..Len(candidates) :
                 /\ \A j \in 1..Len(candidates) : ~Lt(candidates[j].key, candidates[i].key)
                 /\ \A j \in 1..(i - 1) : Lt(candidates[i].key, candidates[j].key)
    IN  candidates[i]

\* Lines 179-182: the boundary as a UTC instant.
BoundaryUtc(best) == AddSeconds(best.local_wall, -best.boundary_offset)

\* Lines 176-182, given the candidates of the two years.
EarliestBoundary(this, after) ==
    IF IsExc(this.raised) THEN this.raised
    ELSE IF IsExc(after.raised) THEN after.raised
    ELSE IF this.cands \o after.cands = <<>> THEN NoneVal
    ELSE BoundaryUtc(MinCandidate(this.cands \o after.cands))

\* _next_posix_transition_utc from local_std on (lines 155-182).
NextBoundaryAfterLocal(f, o, local_std) ==
    IF IsExc(local_std) THEN local_std
    ELSE EarliestBoundary(YearCandidates(f, o, local_std, YearOfOrd(local_std.d)),
                          YearCandidates(f, o, local_std, YearOfOrd(local_std.d) + 1))

\* TimeZoneInfo._next_posix_transition_utc
_next_posix_transition_utc(f, dt_utc) ==
    IF IsNone(f) THEN NoneVal
    ELSE IF IsNone(f.dst_start) \/ IsNone(f.dst_end) THEN NoneVal
    ELSE NextBoundaryAfterLocal(f, _posix_offsets(f),
                                AddSeconds(dt_utc, f.utc_offset_secs))

\* --------------------------------------------------------------- TZif body

TimeTypeInfo(utc_offset_secs, is_dst, abbrev_index) ==
    [utc_offset_secs |-> utc_offset_secs, is_dst |-> is_dst,
     abbrev_index |-> abbrev_index]

\* A TimeZoneInfoBody.  time_type_indices and abbrev_index count from 0, as
\* in the file; the sequences of the model count from 1.
TimeZoneInfoBody(transition_times, time_type_infos, time_type_indices, timezone_abbrevs) ==
    [transition_times |-> transition_times, time_type_infos |-> time_type_infos,
     time_type_indices |-> time_type_indices, timezone_abbrevs |-> timezone_abbrevs,
     leap_second_transitions |-> <<>>, leap_second_expiration |-> NoneVal]

\* The same body with a leap-second table and its expiration instant.
WithLeapSeconds(body, leap_second_transitions, leap_second_expiration) ==
    [body EXCEPT !.leap_second_transitions = leap_second_transitions,
                 !.leap_second_expiration = leap_second_expiration]

\* Seconds since the epoch as the file holds them, a signed integer of 32
\* or 64 bits, written as whole days and the second of the day:
\* t = days * 86400 + secs with 0 <= secs < 86400.
EpochSeconds(days, secs) == [days |-> days, secs |-> secs]

\* _EPOCH + timedelta(seconds=t): OverflowError when the sum leaves the
\* range of datetime.
FromEpoch(t) ==
    LET d == Ymd2Ord(1970, 1, 1) + t.days
    IN  IF d < 1 \/ d > MaxOrdinal THEN Exc("OverflowError")
        ELSE DateTime(d, t.secs, 0)

\* The first exception of a sequence of results, or [value |-> the
\* sequence] when it holds none.
RECURSIVE FirstExc(_, _)
FirstExc(xs, k) ==
    IF k > Len(xs) THEN [value |-> xs]
    ELSE IF IsExc(xs[k]) THEN xs[k]
    ELSE FirstExc(xs, k + 1)

\* LeapSecondTransition: the dataclass has the two fields of the file.
LeapSecondTransition(transition_time, correction) ==
    [transition_time |-> transition_time, correction |-> correction]

\* last.is_expiration = True: an attribute set on the one record.
MarkExpiration(leap) ==
    [transition_time |-> leap.transition_time, correction |-> leap.correction,
     is_expiration |-> TRUE]

\* Whether a record carries the expiration mark.
IsExpiration(leap) == "is_expiration" \in DOMAIN leap

\* TimeZoneInfoBody._read_transition_times, raw the integers unpacked
\* from the file: [value |-> the list of instants], or the exception raised.
_read_transition_times(raw) ==
    FirstExc([k \in 1..Len(raw) |-> FromEpoch(raw[k])], 1)

\* A variant that marks the last record of any table of two or more.
ReadLeapSecondsAlwaysMarked(raw, version) ==
    IF Len(raw) = 0 THEN [leaps |-> <<>>, expiration |-> NoneVal]
    ELSE LET leaps == [k \in 1..Len(raw) |-> LeapSecondTransition(raw[k][1], raw[k][2])]
             n     == Len(raw)
         IN  IF version >= 4 /\ n >= 2
             THEN LET expiration == FromEpoch(leaps[n].transition_time)
                  IN  IF IsExc(expiration) THEN expiration
                      ELSE [leaps |-> [leaps EXCEPT ![n] = MarkExpiration(@)],
                            expiration |-> expiration]
             ELSE [leaps |-> leaps, expiration |-> NoneVal]

\* TimeZoneInfoBody._read_leap_seconds, raw the (instant, correction) pairs
\* unpacked from the file: (leaps, expiration), or the exception raised.
_read_leap_seconds(raw, version) ==
    IF Len(raw) = 0 THEN [leaps |-> <<>>, expiration |-> NoneVal]
    ELSE LET leaps == [k \in 1..Len(raw) |-> LeapSecondTransition(raw[k][1], raw[k][2])]
             n     == Len(raw)
         IN  IF /\ version >= 4
                /\ n >= 2
                /\ leaps[n].transition_time = leaps[n - 1].transition_time
             THEN LET expiration == FromEpoch(leaps[n].transition_time)
                  IN  IF IsExc(expiration) THEN expiration
                      ELSE [leaps |-> [leaps EXCEPT ![n] = MarkExpiration(@)],
                            expiration |-> expiration]
             ELSE [leaps |-> leaps, expiration |-> NoneVal]

\* table[index:].partition("\x00")[0], index counted from 0.
RECURSIVE AbbrevFrom(_, _)
AbbrevFrom(table, index) ==
    IF index + 1 > Len(table) \/ table[index + 1] = NUL THEN <<>>
    ELSE <<table[index + 1]>> \o AbbrevFrom(table, index + 1)

\* The start of the NUL-terminated entry of the table that holds index.
RECURSIVE EntryStart(_, _)
EntryStart(table, index) ==
    IF index = 0 \/ table[index] = NUL THEN index ELSE EntryStart(table, index - 1)

\* A variant that returns the whole entry an index points into.
get_abbrev_of_entry(body, index) ==
    IF index < 0 \/ index >= Len(body.timezone_abbrevs) THEN Exc("IndexError")
    ELSE [value |-> AbbrevFrom(body.timezone_abbrevs,
                               EntryStart(body.timezone_abbrevs, index))]

\* TimeZoneInfoBody.get_abbrev_by_index: [value |-> abbreviation], or the
\* IndexError raised.
get_abbrev_by_index(body, index) ==
    IF index < 0 \/ index >= Len(body.timezone_abbrevs) THEN Exc("IndexError")
    ELSE [value |-> AbbrevFrom(body.timezone_abbrevs, index)]

\* bisect.bisect_right(a, x, lo, hi) on a list of datetimes.
RECURSIVE bisect_right(_, _, _, _)
bisect_right(a, x, lo, hi) ==
    IF lo >= hi THEN lo
    ELSE LET mid == (lo + hi) \div 2
         IN  IF Lt(x, a[mid + 1]) THEN bisect_right(a, x, lo, mid)
             ELSE bisect_right(a, x, mid + 1, hi)

\* bisect.bisect_left, and a faulty variant of find_transition_index built
\* on it: an instant equal to a transition finds the transition before it.
RECURSIVE bisect_left(_, _, _, _)
bisect_left(a, x, lo, hi) ==
    IF lo >= hi THEN lo
    ELSE LET mid == (lo + hi) \div 2
         IN  IF Lt(a[mid + 1], x) THEN bisect_left(a, x, mid + 1, hi)
             ELSE bisect_left(a, x, lo, mid)

find_transition_index_left(body, dt) ==
    LET index == bisect_left(body.transition_times, dt, 0, Len(body.transition_times))
    IN  IF index = 0 THEN <<>> ELSE <<index - 1>>

\* The first lines of find_transition_index and of resolve: a naive
\* datetime (tzinfo <<>>) is taken as UTC, an aware one (tzinfo <<offset>>,
\* a fixed offset in seconds) is converted with astimezone(utc), which
\* raises OverflowError outside the range of datetime.
ToUtc(dt, tzinfo) ==
    IF tzinfo = <<>> THEN dt ELSE AddSeconds(dt, -tzinfo[1])

\* A variant that returns the insertion point itself.
find_transition_index_unshifted(body, dt) ==
    LET index == bisect_right(body.transition_times, dt, 0, Len(body.transition_times))
    IN  IF index = 0 THEN <<>> ELSE <<index>>

\* TimeZoneInfoBody.find_transition_index: <<>> for None, else <<index>>
\* with the index counted from 0.
find_transition_index(body, dt) ==
    LET index == bisect_right(body.transition_times, dt, 0, Len(body.transition_times))
    IN  IF index = 0 THEN <<>> ELSE <<index - 1>>

\* TimeZoneInfoBody.find_leap_second_index: [value |-> <<>>] for None,
\* [value |-> <<index>>] with the index counted from 0, or the exception
\* raised while the instants of the table are built.
find_leap_second_index(body, dt) ==
    LET timestamps == FirstExc([k \in 1..Len(body.leap_second_transitions) |->
                                   FromEpoch(body.leap_second_transitions[k].transition_time)], 1)
    IN  IF IsExc(timestamps) THEN timestamps
        ELSE LET index == bisect_right(timestamps.value, dt, 0, Len(timestamps.value))
             IN  [value |-> IF index = 0 THEN <<>> ELSE <<index - 1>>]

\* The loop of the timezone_abbrevs property from time-type k on, seen the
\* abbreviations collected so far.
RECURSIVE AbbrevsFrom(_, _, _)
AbbrevsFrom(body, k, seen) ==
    IF k > Len(body.time_type_infos) THEN [value |-> seen]
    ELSE LET abbr == get_abbrev_by_index(body, body.time_type_infos[k].abbrev_index)
         IN  IF IsExc(abbr) THEN abbr
             ELSE IF \E j \in 1..Len(seen) : seen[j] = abbr.value
                  THEN AbbrevsFrom(body, k + 1, seen)
                  ELSE AbbrevsFrom(body, k + 1, Append(seen, abbr.value))

\* TimeZoneInfoBody.timezone_abbrevs: [value |-> the list], or the
\* IndexError raised.
timezone_abbrevs(body) == AbbrevsFrom(body, 1, <<>>)

\* --------------------------------------------- TimeZoneTransition (derived)
\* body.transitions[i], i counted from 0.

TransitionTimeTypeInfo(body, i) ==
    body.time_type_infos[body.time_type_indices[i + 1] + 1]

transition_time_utc(body, i) == body.transition_times[i + 1]

TransitionUtcOffsetSecs(body, i) == TransitionTimeTypeInfo(body, i).utc_offset_secs

TransitionIsDst(body, i) == TransitionTimeTypeInfo(body, i).is_dst

TransitionAbbreviation(body, i) ==
    AbbrevFrom(body.timezone_abbrevs, TransitionTimeTypeInfo(body, i).abbrev_index)

\* TimeZoneTransition.dst_difference_secs
dst_difference_secs(body, i) ==
    LET self   == TransitionTimeTypeInfo(body, i)
        prevDst == i > 0 /\ TransitionTimeTypeInfo(body, i - 1).is_dst
        nextDst == i + 1 < Len(body.time_type_indices)
                   /\ TransitionTimeTypeInfo(body, i + 1).is_dst
    IN  IF ~self.is_dst THEN 0
        ELSE IF prevDst
        THEN self.utc_offset_secs - TransitionTimeTypeInfo(body, i - 1).utc_offset_secs
        ELSE IF nextDst
        THEN TransitionTimeTypeInfo(body, i + 1).utc_offset_secs - self.utc_offset_secs
        ELSE 3600

\* ------------------------------------------------------ resolution engine

\* The first index (from 0) of a non-DST time-type, <<>> when all are DST.
FirstStandardType(body) ==
    LET std == {k \in 1..Len(body.time_type_infos) : ~body.time_type_infos[k].is_dst}
    IN  IF std = {} THEN <<>>
        ELSE <<(CHOOSE k \in std : \A j \in std : k <= j) - 1>>

\* A faulty variant of _initial_tt_state: time-type 0, standard or not.
InitialStateOfTypeZero(body) ==
    LET tt   == body.time_type_infos[1]
        abbr == get_abbrev_by_index(body, tt.abbrev_index)
    IN  IF IsExc(abbr) THEN abbr
        ELSE [off |-> tt.utc_offset_secs, delta |-> 0, abbr |-> abbr.value,
              in_dst |-> tt.is_dst]

\* TimeZoneInfo._initial_tt_state
_initial_tt_state(body) ==
    LET std   == FirstStandardType(body)
        tt    == IF std # <<>> THEN body.time_type_infos[std[1] + 1]
                 ELSE body.time_type_infos[1]
        delta == IF tt.is_dst /\ std # <<>>
                 THEN tt.utc_offset_secs - body.time_type_infos[std[1] + 1].utc_offset_secs
                 ELSE 0
        abbr  == get_abbrev_by_index(body, tt.abbrev_index)
    IN  IF IsExc(abbr) THEN abbr
        ELSE [off |-> tt.utc_offset_secs, delta |-> delta, abbr |-> abbr.value,
              in_dst |-> tt.is_dst]

\* A variant that takes the next body transition whatever its state.
NextBodyTransitionAny(body, start_index, current_offset, current_dst_diff, current_abbr) ==
    IF start_index >= Len(body.transition_times) THEN NoneVal
    ELSE transition_time_utc(body, start_index)

\* TimeZoneInfo._next_meaningful_body_transition, start_index counted from 0.
RECURSIVE _next_meaningful_body_transition(_, _, _, _, _)
_next_meaningful_body_transition(body, start_index, current_offset, current_dst_diff, current_abbr) ==
    IF start_index >= Len(body.transition_times) THEN NoneVal
    ELSE IF \/ TransitionUtcOffsetSecs(body, start_index) # current_offset
            \/ dst_difference_secs(body, start_index) # current_dst_diff
            \/ TransitionAbbreviation(body, start_index) # current_abbr
    THEN transition_time_utc(body, start_index)
    ELSE _next_meaningful_body_transition(body, start_index + 1, current_offset,
                                          current_dst_diff, current_abbr)

\* A TimeZoneResolution (the zone's name, the same in every result, left out).
TimeZoneResolution(resolution_time, local_time, utc_offset_secs, is_dst, abbreviation, dst_diff, next_transition) ==
    [resolution_time |-> resolution_time, local_time |-> local_time,
     utc_offset_secs |-> utc_offset_secs, is_dst |-> is_dst,
     abbreviation |-> abbreviation, dst_difference_secs |-> dst_diff,
     next_transition |-> next_transition]

TimeZoneResolutionCache(cache_key, resolution) ==
    [cache_key |-> cache_key, resolution |-> resolution]

\* What one call leaves behind: the value returned or the exception raised,
\* the cache slot after it, and the branch of resolve that served it.
Outcome(ret, cache, served) == [ret |-> ret, cache |-> cache, served |-> served]

\* A variant of the cache hit that returns the cached local_time as it is.
ServeFromCacheStale(cache, dt_utc, served) ==
    Outcome([cache.resolution EXCEPT !.resolution_time = dt_utc], cache, served)

\* A variant of the cache hit that stores what it returns in the slot.
ServeFromCacheRefreshing(cache, dt_utc, served) ==
    LET cached_res == cache.resolution
        local      == AddSeconds(dt_utc, cached_res.utc_offset_secs)
        res        == [cached_res EXCEPT !.resolution_time = dt_utc,
                                         !.local_time = local]
    IN  IF IsExc(local) THEN Outcome(local, cache, served)
        ELSE Outcome(res, TimeZoneResolutionCache([dt_utc EXCEPT !.us = 0], res),
                     served)

\* replace(cached_res, resolution_time=dt_utc, local_time=local): the cache
\* slot is left as it was.
ServeFromCache(cache, dt_utc, served) ==
    LET cached_res == cache.resolution
        local      == AddSeconds(dt_utc, cached_res.utc_offset_secs)
    IN  IF IsExc(local) THEN Outcome(local, cache, served)
        ELSE Outcome([cached_res EXCEPT !.resolution_time = dt_utc,
                                        !.local_time = local],
                     cache, served)

\* The tail of every miss: local time, then _cache_last_resolution.
\* st is (off, delta, abbr, in_dst) or the exception raised computing it,
\* next_transition the next transition or the exception raised computing it.
CacheAndReturn(cache, dt_utc_key, dt_utc, st, next_transition, served) ==
    IF IsExc(st) THEN Outcome(st, cache, served)
    ELSE LET local == AddSeconds(dt_utc, st.off)
         IN  IF IsExc(local) THEN Outcome(local, cache, served)
             ELSE IF IsExc(next_transition) THEN Outcome(next_transition, cache, served)
             ELSE LET res == TimeZoneResolution(dt_utc, local, st.off, st.in_dst,
                                                st.abbr, st.delta, next_transition)
                  IN  Outcome(res, TimeZoneResolutionCache(dt_utc_key, res), served)

\* The state of body.transitions[i] as resolve reads it.
TransitionState(body, i) ==
    [off    |-> TransitionUtcOffsetSecs(body, i),
     delta  |-> IF TransitionIsDst(body, i) THEN dst_difference_secs(body, i) ELSE 0,
     abbr   |-> TransitionAbbreviation(body, i),
     in_dst |-> TransitionIsDst(body, i)]

\* A faulty variant of StateOr: the footer's state is never used.
StateOrInitial(posix_state, initial) == initial

\* posix_state or self._initial_tt_state(body)
StateOr(posix_state, initial) ==
    IF IsNone(posix_state) THEN initial ELSE posix_state

\* _next_posix_transition_utc as resolve reaches it: after the state, whose
\* exception is raised first.
NextAfterState(st, footer, dt_utc) ==
    IF IsExc(st) THEN st ELSE _next_posix_transition_utc(footer, dt_utc)

\* Lines 325-327: the footer's next boundary when the body has none.
BodyNextOrFooter(fromBody, footer, dt_utc) ==
    IF IsNone(fromBody) /\ ~IsNone(footer)
    THEN _next_posix_transition_utc(footer, dt_utc)
    ELSE fromBody

\* A faulty variant of AfterLastTransition: without a footer the zone falls
\* back to its initial state instead of the last transition's.
AfterLastTransitionInitial(tz, cache, dt_utc, dt_utc_key, posix_state) ==
    IF ~IsNone(posix_state)
    THEN CacheAndReturn(cache, dt_utc_key, dt_utc, posix_state,
                        NextAfterState(posix_state, tz.footer, dt_utc), "case3")
    ELSE CacheAndReturn(cache, dt_utc_key, dt_utc, _initial_tt_state(tz.body),
                        NoneVal, "case4")

\* Cases 3 and 4 (lines 341-382), given what _posix_footer_state returned.
AfterLastTransition(tz, cache, dt_utc, dt_utc_key, posix_state) ==
    IF ~IsNone(posix_state)
    THEN \* Case 3: after the last transition, POSIX footer
         CacheAndReturn(cache, dt_utc_key, dt_utc, posix_state,
                        NextAfterState(posix_state, tz.footer, dt_utc), "case3")
    ELSE \* Case 4: no footer, the last known offset
         CacheAndReturn(cache, dt_utc_key, dt_utc,
                        TransitionState(tz.body, Len(tz.body.transition_times) - 1),
                        NoneVal, "case4")

\* TimeZoneInfo.resolve past the cache check (lines 258-382).
ResolveMiss(tz, cache, dt_utc, dt_utc_key) ==
    LET body   == tz.body
        n      == Len(body.transition_times)
        footer == tz.footer
    IN  IF n = 0
        THEN \* Case 0: no transitions at all
             CacheAndReturn(cache, dt_utc_key, dt_utc,
                            StateOr(_posix_footer_state(footer, dt_utc),
                                    _initial_tt_state(body)),
                            _next_posix_transition_utc(footer, dt_utc), "case0")
        ELSE IF Lt(dt_utc, transition_time_utc(body, 0))
        THEN \* Case 1: before the first transition
             LET st == _initial_tt_state(body)
             IN  CacheAndReturn(cache, dt_utc_key, dt_utc, st,
                                IF IsExc(st) THEN st
                                ELSE _next_meaningful_body_transition(
                                         body, 0, st.off, st.delta, st.abbr),
                                "case1")
        ELSE IF Le(dt_utc, transition_time_utc(body, n - 1))
        THEN \* Case 2: between transitions, the last instant included
             LET tr_index == find_transition_index(body, dt_utc)
             IN  IF tr_index = <<>> THEN Outcome(Exc("ValueError"), cache, "case2")
                 ELSE
                 LET st == TransitionState(body, tr_index[1])
                 IN  CacheAndReturn(cache, dt_utc_key, dt_utc, st,
                                    BodyNextOrFooter(
                                        _next_meaningful_body_transition(
                                            body, tr_index[1] + 1, st.off, st.delta,
                                            st.abbr),
                                        footer, dt_utc),
                                    "case2")
        ELSE AfterLastTransition(tz, cache, dt_utc, dt_utc_key,
                                 _posix_footer_state(footer, dt_utc))

\* A variant of resolve whose range cache also serves the instant of the
\* next transition.
resolve_through_next(tz, cache, dt) ==
    LET dt_utc     == dt
        dt_utc_key == [dt_utc EXCEPT !.us = 0]
    IN  IF ~IsNone(cache) /\ cache.cache_key = dt_utc_key
        THEN ServeFromCache(cache, dt_utc, "exact")
        ELSE IF /\ ~IsNone(cache)
                /\ ~IsNone(cache.resolution.next_transition)
                /\ Le(cache.cache_key, dt_utc_key)
                /\ Le(dt_utc_key, cache.resolution.next_transition)
        THEN ServeFromCache(cache, dt_utc, "range")
        ELSE ResolveMiss(tz, cache, dt_utc, dt_utc_key)

\* TimeZoneInfo.resolve.  dt is the query as a UTC instant (an aware input
\* after astimezone(utc), a naive one after replace(tzinfo=utc)).
resolve(tz, cache, dt) ==
    LET dt_utc     == dt
        dt_utc_key == [dt_utc EXCEPT !.us = 0]
    IN  IF ~IsNone(cache) /\ cache.cache_key = dt_utc_key
        THEN ServeFromCache(cache, dt_utc, "exact")
        ELSE IF /\ ~IsNone(cache)
                /\ ~IsNone(cache.resolution.next_transition)
                /\ Le(cache.cache_key, dt_utc_key)
                /\ Lt(dt_utc_key, cache.resolution.next_transition)
        THEN ServeFromCache(cache, dt_utc, "range")
        ELSE ResolveMiss(tz, cache, dt_utc, dt_utc_key)

\* ------------------------------------------------ the zones of the model

\* The raw abbreviation table "STD\0DST\0".
AbbrevTable == <<"S", "T", "D", NUL, "D", "S", "T", NUL>>

\* Time-type tables: standard and daylight; a daylight type listed first and
\* a type that differs from another in its abbreviation alone; daylight
\* types only; a type that differs from another in its DST flag alone.
TypeTables ==
    { <<TimeTypeInfo(-18000, FALSE, 0), TimeTypeInfo(-14400, TRUE, 4)>>,
      <<TimeTypeInfo(-14400, TRUE, 4), TimeTypeInfo(-18000, FALSE, 0),
        TimeTypeInfo(-18000, FALSE, 4)>>,
      <<TimeTypeInfo(-14400, TRUE, 4), TimeTypeInfo(-10800, TRUE, 0)>>,
      <<TimeTypeInfo(-18000, FALSE, 0), TimeTypeInfo(-18000, TRUE, 0),
        TimeTypeInfo(-14400, FALSE, 4)>> }

\* The k-th transition instant of an enumerated body: 2024-04-10,
\* 2024-07-19, 2024-10-27, 2025-02-04, ... at 00:00:00 UTC.
BodyTime(k) == DateTime(Ymd2Ord(2024, 1, 1) + 100 * k, 0, 0)

\* Transition instants, non-decreasing: all distinct, or the first two equal.
TimeLayouts(n) ==
    { [k \in 1..n |-> BodyTime(k)] } \cup
    (IF n >= 2 THEN { [k \in 1..n |-> BodyTime(IF k = 1 THEN 1 ELSE k - 1)] } ELSE {})

Bodies ==
    { TimeZoneInfoBody(times, types, indices, AbbrevTable) :
        <<types, times, indices>> \in
            UNION { UNION { {tt} \X TimeLayouts(n) \X [1..n -> 0..(Len(tt) - 1)]
                            : n \in 0..MaxTransitions } : tt \in TypeTables } }

\* STD5DST,M3.2.0/2,M11.1.0/2 as PosixTzInfo.read returns it.
FooterNorth ==
    PosixTzInfo(<<"S", "T", "D">>, -18000, <<"D", "S", "T">>, <<-14400>>,
                PosixTzDateTime(3, 2, 0, 2, 0, 0), PosixTzDateTime(11, 1, 0, 2, 0, 0))

\* STD3DST,M10.1.0/2,M4.1.0/2 with no explicit DST offset (tests, line 133).
FooterSouth ==
    PosixTzInfo(<<"S", "T", "D">>, -10800, <<"D", "S", "T">>, <<>>,
                PosixTzDateTime(10, 1, 0, 2, 0, 0), PosixTzDateTime(4, 1, 0, 2, 0, 0))

\* STD5: no rules.
FooterFixed ==
    PosixTzInfo(<<"S", "T", "D">>, -18000, <<>>, <<>>, NoneVal, NoneVal)

\* STD5DST,M3.2.0/26,M11.1.0/2: a transition hour past 23.
FooterExtended ==
    PosixTzInfo(<<"S", "T", "D">>, -18000, <<"D", "S", "T">>, <<-14400>>,
                PosixTzDateTime(3, 2, 0, 26, 0, 0), PosixTzDateTime(11, 1, 0, 2, 0, 0))

\* STD5DST,J60/26,300/-1: a Julian and an ordinal rule, hours outside 0..23.
FooterJulian ==
    PosixTzInfo(<<"S", "T", "D">>, -18000, <<"D", "S", "T">>, <<-14400>>,
                PosixTzJulianDateTime(60, 26, 0, 0), PosixTzOrdinalDateTime(300, -1, 0, 0))

\* STD5DST,J60/2,J365/25: the end rule falls on January 1 of the next year.
FooterYearEnd ==
    PosixTzInfo(<<"S", "T", "D">>, -18000, <<"D", "S", "T">>, <<-14400>>,
                PosixTzJulianDateTime(60, 2, 0, 0), PosixTzJulianDateTime(365, 25, 0, 0))

\* STD5,M5.1.0,M6.1.0 as PosixTzInfo.read returns it: both rules, neither a
\* DST abbreviation nor a DST offset.
FooterUnnamedDst ==
    PosixTzInfo(<<"S", "T", "D">>, -18000, <<>>, <<>>,
                PosixTzDateTime(5, 1, 0, 2, 0, 0), PosixTzDateTime(6, 1, 0, 2, 0, 0))

Footers ==
    {FooterNorth, FooterSouth, FooterFixed, FooterExtended, FooterJulian,
     FooterYearEnd, FooterUnnamedDst}

TimeZoneInfo(body, footer) == [body |-> body, footer |-> footer]

\* A footer agrees with the body when it gives, at the last transition, the
\* state of the last transition: its offset, DST flag, abbreviation and
\* dst_difference_secs.
FooterAgrees(body, footer) ==
    _posix_footer_state(footer, transition_time_utc(body, Len(body.transition_times) - 1))
        = TransitionState(body, Len(body.transition_times) - 1)

\* Footer-only zones: no transitions, the one time-type of the footer's
\* standard time.
FooterZones ==
    { TimeZoneInfo(TimeZoneInfoBody(<<>>, <<TimeTypeInfo(f.utc_offset_secs, FALSE, 0)>>,
                                    <<>>, AbbrevTable), f) : f \in Footers }

\* Bodies without a footer; bodies with a footer that agrees with them;
\* and the footer-only zones.
Zones ==
    { TimeZoneInfo(b, NoneVal) : b \in Bodies }
    \cup { TimeZoneInfo(x[1], x[2]) :
             x \in { y \in Bodies \X {FooterNorth, FooterUnnamedDst} :
                        /\ Len(y[1].transition_times) > 0
                        /\ FooterAgrees(y[1], y[2]) } }
    \cup FooterZones

\* ----------------------------------------------------------- the queries

WithMicro(dt) == [dt EXCEPT !.us = 500000]

Around(t) == {AddSeconds(t, -1), t, WithMicro(t), AddSeconds(t, 1)}

\* A winter and a summer instant, one whose local-standard year is not its
\* UTC year, and one in the last representable year.
FooterProbes ==
    {At(2025, 1, 15, 0, 0, 0), At(2025, 6, 15, 0, 0, 0), At(2026, 1, 1, 2, 0, 0),
     At(9999, 12, 31, 12, 0, 0)}

\* Instants around every body transition, one before them all and one long
\* after; with a footer, the probes and the instants around the rule
\* boundary that follows the winter and the summer probe.
Queries(tz) ==
    LET times == {tz.body.transition_times[k] : k \in 1..Len(tz.body.transition_times)}
        nexts == {_next_posix_transition_utc(tz.footer, p) :
                     p \in {At(2025, 1, 15, 0, 0, 0), At(2025, 6, 15, 0, 0, 0)}}
    IN  UNION {Around(t) : t \in times}
        \cup {At(2023, 6, 1, 12, 0, 0), At(2027, 6, 1, 12, 0, 0)}
        \cup (IF IsNone(tz.footer) THEN {}
              ELSE FooterProbes
                   \cup UNION { {AddSeconds(x, -1), x, WithMicro(x)} :
                                x \in {y \in nexts : ~IsNone(y) /\ ~IsExc(y)} })

\* ------------------------------------------------------ the state machine

VARIABLES
    tz,               \* the decoded zone (header, body, footer): never mutated
    last_resolution,  \* TimeZoneInfo._last_resolution, the one-slot cache
    query,            \* the instant of the last resolve call
    result,           \* what that call returned, or the exception it raised
    served            \* the branch of resolve that served it

vars == <<tz, last_resolution, query, result, served>>

\* TimeZoneInfo.__init__: the cache slot is empty.
Init ==
    /\ tz \in Zones
    /\ last_resolution = NoneVal
    /\ query = NoneVal
    /\ result = NoneVal
    /\ served = "none"

\* One call tz.resolve(dt).
Resolve(dt) ==
    \E out \in {resolve(tz, last_resolution, dt)} :
        /\ last_resolution' = out.cache
        /\ query' = dt
        /\ result' = out.ret
        /\ served' = out.served
        /\ UNCHANGED tz

Next == \E dt \in Queries(tz) : Resolve(dt)

Spec == Init /\ [][Next]_vars

\* ------------------------------- the next-boundary search, called directly

\* The first of every month of 2025 at noon, the seconds around the two
\* boundaries of STD5DST,M3.2.0/2,M11.1.0/2 in 2025, the last hour of the
\* UTC year, and two instants of the last representable year.
PosixQueries ==
    {At(2025, m, 1, 12, 0, 0) : m \in 1..12}
    \cup {At(2025, 3, 9, 6, 59, 59), At(2025, 3, 9, 7, 0, 0),
          At(2025, 11, 2, 5, 59, 59), At(2025, 11, 2, 6, 0, 0),
          At(2025, 12, 31, 23, 0, 0),
          At(9999, 6, 1, 0, 0, 0), At(9999, 12, 31, 12, 0, 0)}

InitPosix ==
    /\ tz \in FooterZones
    /\ last_resolution = NoneVal
    /\ query = NoneVal
    /\ result = NoneVal
    /\ served = "none"

\* One call tz._next_posix_transition_utc(dt): the cache is not touched.
NextPosixTransition(dt) ==
    /\ query' = dt
    /\ result' = _next_posix_transition_utc(tz.footer, dt)
    /\ served' = "next_posix"
    /\ UNCHANGED <<tz, last_resolution>>

NextPosix == \E dt \in PosixQueries : NextPosixTransition(dt)

SpecPosix == InitPosix /\ [][NextPosix]_vars

\* ------------------------------------------ zones with a leap-second table

\* The leap-second record of the file whose instant is the midnight that
\* begins the day of BodyTime(k) moved by shift days.
RawLeap(k, shift, correction) ==
    <<EpochSeconds(BodyTime(k).d - Ymd2Ord(1970, 1, 1) + shift, 0), correction>>

\* Leap-second sections: two leap seconds that fall between the body
\* transitions; two that fall on the first two transition instants; and,
\* in a version 4 file, two followed by the expiration record.
LeapFiles ==
    { [version |-> 2, raw |-> <<RawLeap(1, -30, 1), RawLeap(2, -30, 2)>>],
      [version |-> 2, raw |-> <<RawLeap(1, 0, 1), RawLeap(2, 0, 2)>>],
      [version |-> 4, raw |-> <<RawLeap(1, -30, 1), RawLeap(2, -30, 2),
                                RawLeap(2, -30, 2)>>] }

\* The zones of the model with at most MaxLeapTransitions transitions, the
\* first or the last time-type table and no footer or the northern one,
\* each with every leap-second section as _read_leap_seconds decodes it.
LeapZones ==
    { [z EXCEPT !.body = WithLeapSeconds(@, r.leaps, r.expiration)] :
        <<z, r>> \in
          { y \in Zones :
              /\ Len(y.body.transition_times) <= MaxLeapTransitions
              /\ y.body.time_type_infos[1] = TimeTypeInfo(-18000, FALSE, 0)
              /\ (IsNone(y.footer) \/ y.footer = FooterNorth) }
          \X { _read_leap_seconds(f.raw, f.version) : f \in LeapFiles } }

\* The instants of the leap-second table of a body, the expiration record
\* left out, and the instants to query around them.
LeapInstants(body) ==
    { FromEpoch(body.leap_second_transitions[k].transition_time) :
        k \in { j \in 1..Len(body.leap_second_transitions) :
                   ~IsExpiration(body.leap_second_transitions[j]) } }

LeapQueries(z) ==
    Queries(z)
    \cup UNION { Around(t) : t \in LeapInstants(z.body) }
    \cup (IF IsNone(z.body.leap_second_expiration) THEN {}
          ELSE Around(z.body.leap_second_expiration))

InitLeap ==
    /\ tz \in LeapZones
    /\ last_resolution = NoneVal
    /\ query = NoneVal
    /\ result = NoneVal
    /\ served = "none"

NextLeap == \E dt \in LeapQueries(tz) : Resolve(dt)

SpecLeap == InitLeap /\ [][NextLeap]_vars

\* ------------------------------------- the body decoder and its lookups

\* Instants as a version 1 section holds them, 32-bit: -2^31, the first two
\* transition days of the model, 2^31 - 1.
RawTimes32 ==
    { EpochSeconds(-24856, 74752),
      EpochSeconds(BodyTime(1).d - Ymd2Ord(1970, 1, 1), 0),
      EpochSeconds(BodyTime(2).d - Ymd2Ord(1970, 1, 1), 0),
      EpochSeconds(24855, 11647) }

\* Instants as a section of version 2 or later holds them, 64-bit: -10^12
\* and 10^12, outside the range of datetime, and the two days in between.
RawTimes64 ==
    { EpochSeconds(-11574075, 80000),
      EpochSeconds(BodyTime(1).d - Ymd2Ord(1970, 1, 1), 0),
      EpochSeconds(BodyTime(2).d - Ymd2Ord(1970, 1, 1), 0),
      EpochSeconds(11574074, 6400) }

\* a <= b for two instants of the file.
RawLe(a, b) == a.days < b.days \/ (a.days = b.days /\ a.secs <= b.secs)

\* The non-decreasing sequences of at most MaxRecords instants.
SortedRaw(times) ==
    UNION { { r \in [1..n -> times] : \A k \in 1..(n - 1) : RawLe(r[k], r[k + 1]) }
            : n \in 0..MaxRecords }

\* A section of a file of a version: its instants in the width of the version.
RawSections ==
    { [version |-> v, raw |-> r] :
        <<v, r>> \in ({1} \X SortedRaw(RawTimes32)) \cup ({2, 3, 4} \X SortedRaw(RawTimes64)) }

\* The body of a zone of one time-type, UTC, before its sections are read.
UtcBody ==
    TimeZoneInfoBody(<<>>, <<TimeTypeInfo(0, FALSE, 0)>>, <<>>, <<"U", "T", "C", NUL>>)

\* Abbreviation tables: "LMT\0AHST\0HDT\0", "STD\0DST\0" and "STD\0DST"
\* with no NUL at its end.
AbbrevTables ==
    { <<"L", "M", "T", NUL, "A", "H", "S", "T", NUL, "H", "D", "T", NUL>>,
      AbbrevTable,
      <<"S", "T", "D", NUL, "D", "S", "T">> }

\* Bodies of one to MaxTypes time-types, their abbrev_index 0, 4, 5 or 9.
AbbrevBodies ==
    { TimeZoneInfoBody(<<>>, [k \in 1..n |-> TimeTypeInfo(0, FALSE, ix[k])], <<>>, table) :
        <<n, ix, table>> \in
            UNION { {n} \X [1..n -> {0, 4, 5, 9}] \X AbbrevTables : n \in 1..MaxTypes } }

\* The datetimes to look up: naive ones around every instant of the body,
\* and every instant as an aware UTC datetime and as the same civil time
\* five hours behind UTC.
LookupQueries(times) ==
    { [dt |-> t, tzinfo |-> <<>>] :
        t \in UNION { Around(x) : x \in times } \cup {At(2023, 6, 1, 12, 0, 0)} }
    \cup { [dt |-> t, tzinfo |-> o] : <<t, o>> \in times \X {<<0>>, <<-18000>>} }

InitBody ==
    /\ tz = TimeZoneInfo(UtcBody, NoneVal)
    /\ last_resolution = NoneVal
    /\ query = NoneVal
    /\ result = NoneVal
    /\ served = "none"

\* TimeZoneInfoBody._read_transition_times on a section, and the body built
\* from the instants it returns, every transition of time-type 0.
ReadTransitionTimes(section) ==
    /\ served = "none"
    /\ \E r \in {_read_transition_times(section.raw)} :
        /\ query' = section
        /\ result' = r
        /\ served' = "_read_transition_times"
        /\ tz' = IF IsExc(r) THEN tz
                 ELSE TimeZoneInfo(TimeZoneInfoBody(r.value, UtcBody.time_type_infos,
                                                    [k \in 1..Len(r.value) |-> 0],
                                                    UtcBody.timezone_abbrevs), NoneVal)
        /\ UNCHANGED last_resolution

\* TimeZoneInfoBody._read_leap_seconds on a section, the k-th record with
\* the correction k (the expiration record repeats the last), and the body
\* built from what it returns.
ReadLeapSeconds(section) ==
    /\ served = "none"
    /\ \E r \in {_read_leap_seconds(
                 [k \in 1..Len(section.raw) |->
                     <<section.raw[k],
                       IF k > 1 /\ section.raw[k] = section.raw[k - 1] THEN k - 1 ELSE k>>],
                 section.version)} :
        /\ query' = section
        /\ result' = r
        /\ served' = "_read_leap_seconds"
        /\ tz' = IF IsExc(r) THEN tz
                 ELSE TimeZoneInfo(WithLeapSeconds(UtcBody, r.leaps, r.expiration), NoneVal)
        /\ UNCHANGED last_resolution

\* body.find_transition_index(dt) on the body last built.
FindTransitionIndex(q) ==
    \E u \in {ToUtc(q.dt, q.tzinfo)} :
        /\ query' = q
        /\ result' = IF IsExc(u) THEN u
                     ELSE [value |-> find_transition_index(tz.body, u)]
        /\ served' = "find_transition_index"
        /\ UNCHANGED <<tz, last_resolution>>

\* body.find_leap_second_index(dt) on the body last built.
FindLeapSecondIndex(q) ==
    \E u \in {ToUtc(q.dt, q.tzinfo)} :
        /\ query' = q
        /\ result' = IF IsExc(u) THEN u ELSE find_leap_second_index(tz.body, u)
        /\ served' = "find_leap_second_index"
        /\ UNCHANGED <<tz, last_resolution>>

\* A body built from time-types and an abbreviation table, and its
\* timezone_abbrevs property.
TimezoneAbbrevs(body) ==
    /\ served = "none"
    /\ tz' = TimeZoneInfo(body, NoneVal)
    /\ query' = NoneVal
    /\ result' = timezone_abbrevs(body)
    /\ served' = "timezone_abbrevs"
    /\ UNCHANGED last_resolution

\* body.get_abbrev_by_index(index) on the body last built.
GetAbbrevByIndex(index) ==
    /\ query' = [index |-> index]
    /\ result' = get_abbrev_by_index(tz.body, index)
    /\ served' = "get_abbrev_by_index"
    /\ UNCHANGED <<tz, last_resolution>>

\* The instants of the leap-second table of the body that are in range.
LeapLookupTimes ==
    { t \in { FromEpoch(tz.body.leap_second_transitions[k].transition_time) :
                k \in 1..Len(tz.body.leap_second_transitions) } : ~IsExc(t) }

\* A body is decoded once, when the file is opened, and looked up after.
NextBody ==
    \/ \E section \in RawSections : ReadTransitionTimes(section)
    \/ \E section \in RawSections : ReadLeapSeconds(section)
    \/ \E body \in AbbrevBodies : TimezoneAbbrevs(body)
    \/ \E q \in LookupQueries({ tz.body.transition_times[k] :
                                    k \in 1..Len(tz.body.transition_times) }) :
           FindTransitionIndex(q)
    \/ \E q \in LookupQueries(LeapLookupTimes) : FindLeapSecondIndex(q)
    \/ \E index \in -1..13 : GetAbbrevByIndex(index)

SpecBody == InitBody /\ [][NextBody]_vars

\* ------------------------------------------- the footer parser, called directly

\* n written with width decimal digits, zeros in front.
DigitsOf(n, width) ==
    [k \in 1..width |-> DigitChars[((n \div (10 ^ (width - k))) % 10) + 1]]

\* The text [sign]h[:mm[:ss]] of its parts.
TextOfParts(sign, h, width, m, sec) ==
    (IF sign = "" THEN <<>> ELSE <<sign>>)
    \o DigitsOf(h, width)
    \o (IF m = <<>> THEN <<>> ELSE <<":">> \o DigitsOf(m[1], 2))
    \o (IF sec = <<>> THEN <<>> ELSE <<":">> \o DigitsOf(sec[1], 2))

\* Texts of the grammar [sign]h[:mm[:ss]], each with the parts it was
\* written from, and texts outside it.  An hour is written with one to
\* three digits; hw is an hour and its width, ms the minutes and the
\* seconds, each <<>> when left out.
TimeTexts ==
    { [text |-> TextOfParts(sg, hw[1], hw[2], ms[1], ms[2]), wellformed |-> TRUE,
       sign |-> sg, h |-> hw[1], m |-> IF ms[1] = <<>> THEN 0 ELSE ms[1][1],
       s |-> IF ms[2] = <<>> THEN 0 ELSE ms[2][1]] :
        <<sg, hw, ms>> \in
            {"", "+", "-"}
            \X { <<h, w>> \in {0, 5, 14, 23, 24, 25, 99, 167, 168, 200, 999} \X (1..3) :
                     h < 10 ^ w }
            \X ({ << <<>>, <<>> >> }
                \cup { << <<m>>, <<>> >> : m \in {0, 30, 59, 60, 99} }
                \cup { << <<m>>, <<sec>> >> :
                           <<m, sec>> \in {0, 30, 59, 60, 99} \X {0, 30, 59, 60, 99} }) }
    \cup { [text |-> t, wellformed |-> FALSE] : t \in
        { <<>>,
          <<"a", "b", "c">>,
          <<"5", ":">>,
          <<"5", ":", "3">>,
          <<"5", ":", "3", "0", ":">>,
          <<"1", "2", "3", "4">>,
          <<"+">>,
          <<"-">>,
          <<"5", ":", "3", "0", ":", "1", "5", ":", "1", "0">>,
          <<"5", ".", "3", "0">>,
          <<"5", ":", "3", "0", "0">>,
          <<"+", "+", "5">>,
          <<"5", "-">> } }

\* Footer lines, the newline that ends them included.
FooterLines ==
    { <<"S", "T", "D", "5", "D", "S", "T", ",", "M", "3", ".", "2", ".", "0", "/", "2", ",", "M", "1", "1", ".", "1", ".", "0", "/", "2", "\n">>,
      <<"S", "T", "D", "3", "D", "S", "T", ",", "M", "1", "0", ".", "1", ".", "0", ",", "M", "4", ".", "1", ".", "0", "\n">>,
      <<"S", "T", "D", "5", "\n">>,
      <<"S", "T", "D", "5">>,
      <<"<", "U", "T", "C", "+", "0", "5", ",", "3", "0", ">", "-", "5", ":", "3", "0", "\n">>,
      <<"<", "+", "0", "3", ">", "-", "3", "\n">>,
      <<"<", "-", "0", "3", ">", "3", "<", "-", "0", "2", ">", ",", "M", "3", ".", "5", ".", "0", "/", "-", "2", ",", "M", "1", "0", ".", "5", ".", "0", "/", "-", "1", "\n">>,
      <<"S", "T", "D", "5", "D", "S", "T", ",", "J", "6", "0", "/", "2", "6", ",", "3", "0", "0", "/", "-", "1", "\n">>,
      <<"S", "T", "D", "5", "D", "S", "T", ",", "M", "3", ".", "2", ".", "0", "/", "2", "6", ",", "M", "1", "1", ".", "1", ".", "0", "/", "2", "\n">>,
      <<"S", "T", "D", "5", "D", "S", "T", "4", ":", "3", "0", ",", "M", "3", ".", "2", ".", "0", ",", "M", "1", "1", ".", "1", ".", "0", "\n">>,
      <<>>,
      <<"\n">>,
      <<"S", "T", "D", "\n">>,
      <<"5", "\n">>,
      <<"S", "T", "D", "5", "D", "S", "T", ",", "M", "3", ".", "2", ".", "0", "\n">>,
      <<"S", "T", "D", "2", "5", "\n">>,
      <<"S", "T", "D", "5", "D", "S", "T", ",", "M", "1", "3", ".", "1", ".", "0", ",", "M", "1", "1", ".", "1", ".", "0", "\n">>,
      <<"S", "T", "D", "5", "D", "S", "T", ",", "J", "0", ",", "J", "3", "6", "5", "\n">>,
      <<"S", "T", "D", "5", "D", "S", "T", ",", "3", "6", "6", ",", "0", "\n">>,
      <<"S", "T", "D", "5", "D", "S", "T", ",", "M", "3", ".", "2", ".", "0", "/", "1", "6", "8", ",", "M", "1", "1", ".", "1", ".", "0", "\n">>,
      <<"S", "T", "D", "5", "D", "S", "T", ",", "x", ",", "y", "\n">>,
      <<"S", "T", "D", "5", "D", "S", "T", ",", ",", "\n">>,
      <<"<", "A", ",", "B", ">", "5", "\n">>,
      <<"<", "A", "B", ">", "5", "<", "C", "D", ",", "E", ">", ",", "M", "3", ".", "2", ".", "0", ",", "M", "1", "1", ".", "1", ".", "0", "\n">> }

\* Date rules handed to the rule parser: rules of the three forms, with and
\* without a time, and texts of none of the forms.
RuleTexts ==
    { [text |-> t, wellformed |-> TRUE] : t \in
        {
          <<"M", "3", ".", "2", ".", "0">>,
          <<"M", "3", ".", "2", ".", "0", "/", "2">>,
          <<"M", "1", "1", ".", "1", ".", "0", "/", "2">>,
          <<"M", "1", "2", ".", "5", ".", "6">>,
          <<"M", "1", ".", "1", ".", "0", "/", "-", "2", ":", "3", "0">>,
          <<"J", "1">>,
          <<"J", "6", "0", "/", "2">>,
          <<"J", "3", "6", "5">>,
          <<"0">>,
          <<"5", "9">>,
          <<"3", "6", "5", "/", "2">>,
          <<"M", "0", "3", ".", "2", ".", "0">>,
          <<"M", "3", ".", "2", ".", "0", "/">> } }
    \cup { [text |-> t, wellformed |-> FALSE] : t \in
        {
          <<"x">>,
          <<"/", "2">>,
          <<"3", ".", "5">>,
          <<"-", "5">>,
          <<"+", "5">>,
          <<"j", "6", "0">>,
          <<"m", "3", ".", "2", ".", "0">>,
          <<"J", "+", "6", "0">>,
          <<"M", "1", "3", ".", "1", ".", "0">>,
          <<"M", "0", ".", "1", ".", "0">>,
          <<"M", "5", ".", "6", ".", "0">>,
          <<"M", "5", ".", "1", ".", "7">>,
          <<"J", "0">>,
          <<"J", "3", "6", "6">>,
          <<"3", "6", "7">>,
          <<"M", "3", ".", "2">>,
          <<"J">>,
          <<"J", "x">>,
          <<"M", "3", ".", "2", ".", "0", "x">>,
          <<"J", "6", "0", "x">>,
          <<"M", "3", ".", "2", ".", "0", "/", "1", "6", "8">>,
          <<"M", "3", ".", "2", ".", "0", "/", "2", "/", "3">>,
          <<"M", "3", ".", "2", ".", "0", "/", "0", ":", "6", "0">> } }

InitFooter ==
    /\ tz = TimeZoneInfo(UtcBody, NoneVal)
    /\ last_resolution = NoneVal
    /\ query = NoneVal
    /\ result = NoneVal
    /\ served = "none"

\* PosixTzInfo._read_offset(text)
ReadOffset(input) ==
    /\ query' = input
    /\ result' = _read_offset(input.text)
    /\ served' = "_read_offset"
    /\ UNCHANGED <<tz, last_resolution>>

\* PosixTzInfo._read_dst_transition_time(text)
ReadDstTransitionTime(input) ==
    /\ query' = input
    /\ result' = _read_dst_transition_time(input.text)
    /\ served' = "_read_dst_transition_time"
    /\ UNCHANGED <<tz, last_resolution>>

\* PosixTzInfo._read_dst_transition_datetime(text)
ReadDstTransitionDatetime(input) ==
    /\ query' = input
    /\ result' = _read_dst_transition_datetime(input.text)
    /\ served' = "_read_dst_transition_datetime"
    /\ UNCHANGED <<tz, last_resolution>>

\* PosixTzInfo.read(file), the file at the newline before the footer line.
ReadFooter(line) ==
    /\ query' = [text |-> line]
    /\ result' = read(line)
    /\ served' = "read"
    /\ UNCHANGED <<tz, last_resolution>>

\* rule.to_datetime(year)
ToDatetime(rule, year) ==
    /\ query' = [rule |-> rule, year |-> year]
    /\ result' = to_datetime(rule, year)
    /\ served' = "to_datetime"
    /\ UNCHANGED <<tz, last_resolution>>

\* Each behaviour is one call of one of the parser's functions.  The rules
\* are the month/week/weekday rules at 00:00:00, at the default 02:00:00, at
\* 26:00:00 and at -2:30:00 (read as -2, -30, 0), and the Julian and the
\* ordinal rules of every day at 00:00:00 and 02:00:00; the years are the
\* first and the last year of datetime, a leap year and the years around it.
NextFooter ==
    \/ served = "none" /\ \E input \in TimeTexts : ReadOffset(input)
    \/ served = "none" /\ \E input \in TimeTexts : ReadDstTransitionTime(input)
    \/ served = "none" /\ \E input \in RuleTexts : ReadDstTransitionDatetime(input)
    \/ served = "none" /\ \E line \in FooterLines : ReadFooter(line)
    \/ /\ served = "none"
       /\ \E m \in 1..12, w \in 1..5, d \in 0..6 :
              \E t \in {<<0, 0, 0>>, <<2, 0, 0>>, <<26, 0, 0>>, <<-2, -30, 0>>} :
                  \E year \in {MINYEAR, 2023, 2024, 2025, MAXYEAR} :
                      ToDatetime(PosixTzDateTime(m, w, d, t[1], t[2], t[3]), year)
    \/ /\ served = "none"
       /\ \E n \in 1..365, h \in {0, 2} :
              \E year \in {MINYEAR, 2023, 2024, 2025, MAXYEAR} :
                  ToDatetime(PosixTzJulianDateTime(n, h, 0, 0), year)
    \/ /\ served = "none"
       /\ \E n \in 0..365, h \in {0, 2} :
              \E year \in {MINYEAR, 2023, 2024, 2025, MAXYEAR} :
                  ToDatetime(PosixTzOrdinalDateTime(n, h, 0, 0), year)

SpecFooter == InitFooter /\ [][NextFooter]_vars

\* ------------------------------------------------- vocabulary of the claims

IsResolution(x) == "utc_offset_secs" \in DOMAIN x

\* What a fresh instance of the zone, its cache empty, returns for t.
Fresh(t) == resolve(tz, NoneVal, t).ret

NumTransitions == Len(tz.body.transition_times)

FirstTransitionTime == tz.body.transition_times[1]

LastTransitionTime == tz.body.transition_times[NumTransitions]

BodyTransitionTimes == {tz.body.transition_times[k] : k \in 1..NumTransitions}

HasRules(f) == ~IsNone(f) /\ ~IsNone(f.dst_start) /\ ~IsNone(f.dst_end)

\* res carries the offset, DST flag and abbreviation of the time-type tt.
ReportsType(res, tt) ==
    /\ res.utc_offset_secs = tt.utc_offset_secs
    /\ res.is_dst = tt.is_dst
    /\ res.abbreviation = AbbrevFrom(tz.body.timezone_abbrevs, tt.abbrev_index)

\* res carries the state st = (off, delta, abbr, in_dst).
ReportsState(res, st) ==
    /\ res.utc_offset_secs = st.off
    /\ res.is_dst = st.in_dst
    /\ res.abbreviation = st.abbr
    /\ res.dst_difference_secs = st.delta

\* The first non-DST time-type, or time-type 0 when every one is DST.
StandardOrFirstType ==
    LET types == tz.body.time_type_infos
    IN  IF \E k \in 1..Len(types) : ~types[k].is_dst
        THEN types[CHOOSE k \in 1..Len(types) :
                       ~types[k].is_dst /\ \A j \in 1..(k - 1) : types[j].is_dst]
        ELSE types[1]

\* The instant of the first body transition of index >= from (counted from
\* 0) whose offset, dst_difference_secs or abbreviation differs from res,
\* or None.
FirstDifferingFrom(from, res) ==
    LET ks == {k \in from..(NumTransitions - 1) :
                  \/ TransitionUtcOffsetSecs(tz.body, k) # res.utc_offset_secs
                  \/ dst_difference_secs(tz.body, k) # res.dst_difference_secs
                  \/ TransitionAbbreviation(tz.body, k) # res.abbreviation}
    IN  IF ks = {} THEN NoneVal
        ELSE transition_time_utc(tz.body, CHOOSE k \in ks : \A j \in ks : k <= j)

\* dt + timedelta(seconds=secs), an exception standing for itself.
Shifted(dt, secs) == IF IsExc(dt) THEN dt ELSE AddSeconds(dt, secs)

\* The civil time a rule names in a year: its date at midnight plus its
\* hours, minutes and seconds as a duration.
CivilTime(rule, year) ==
    IF rule.kind = "M"
    THEN Shifted(MonthRuleToDatetime([rule EXCEPT !.hour = 0, !.minute = 0,
                                                  !.second = 0], year),
                 TimeDelta(0, rule.hour, rule.minute, rule.second))
    ELSE to_datetime(rule, year)

\* The rule boundaries of a footer in a year, as UTC instants: the start
\* rule's civil time minus the standard offset, the end rule's civil time
\* minus the DST offset.  A year with a rule outside the date range has none.
BoundariesOfYear(f, year) ==
    IF IsExc(CivilTime(f.dst_start, year)) \/ IsExc(CivilTime(f.dst_end, year))
    THEN {}
    ELSE { b \in { AddSeconds(CivilTime(f.dst_start, year), -_posix_offsets(f).std),
                   AddSeconds(CivilTime(f.dst_end, year), -_posix_offsets(f).dst_offset) }
             : ~IsExc(b) }

\* The earliest instant of a set strictly after t, or None.
EarliestAfter(instants, t) ==
    LET later == {b \in instants : Lt(t, b)}
    IN  IF later = {} THEN NoneVal
        ELSE CHOOSE b \in later : \A c \in later : Le(b, c)

\* The years of the queries, with the year before and the year after.
FooterYears == (2022..2028) \cup {MAXYEAR - 1, MAXYEAR}

\* The transition instants of the zone: the body's, and the footer's rule
\* boundaries where the footer serves, after the last body transition.
TransitionInstants ==
    BodyTransitionTimes
    \cup (IF ~HasRules(tz.footer) THEN {}
          ELSE { b \in UNION {BoundariesOfYear(tz.footer, y) : y \in FooterYears} :
                     NumTransitions = 0 \/ Lt(LastTransitionTime, b) })

\* No instant of Ts lies in (t1, t2), the end t2 included when closed.
NoneBetween(Ts, t1, t2, closed) ==
    ~\E T \in Ts : Lt(t1, T) /\ (Lt(T, t2) \/ (closed /\ T = t2))

\* The call of this state and a fresh call at any other instant, in either
\* order, report the same offset when no transition lies between them.
EqualOffsetsAcross(closed) ==
    IsResolution(result) =>
        \A Ts \in {TransitionInstants} : \A t \in Queries(tz) :
            (\/ Le(t, query) /\ NoneBetween(Ts, t, query, closed)
             \/ Le(query, t) /\ NoneBetween(Ts, query, t, closed)) =>
                \A r \in {Fresh(t)} :
                    IsResolution(r) => r.utc_offset_secs = result.utc_offset_secs

\* ------------------------------------------------------------- the claims

\* C1: for any sequence of resolve calls on one TimeZoneInfo, the Resolution
\* returned for an instant is equal in every field to the Resolution a fresh
\* instance with an empty cache returns for that instant.
C1_CachedEqualsFresh ==
    IsResolution(result) => result = Fresh(query)

C3_AtTransitionNewType ==
    (IsResolution(result) /\ query \in BodyTransitionTimes) =>
        \E i \in {k \in 0..(NumTransitions - 1) :
                     /\ transition_time_utc(tz.body, k) = query
                     /\ \A j \in (k + 1)..(NumTransitions - 1) :
                            transition_time_utc(tz.body, j) # query} :
            ReportsType(result, TransitionTimeTypeInfo(tz.body, i))

\* C4: for a decoded zone (at least one time-type, any footer the POSIX
\* parser accepts, rule hours outside 0..23 included), resolve(t) returns a
\* Resolution and raises no error for every representable instant t.
C4_ResolveNeverRaises ==
    ~IsNone(query) => IsResolution(result)

\* C5: for an instant strictly before the first body transition, resolve
\* reports the offset, DST flag and abbreviation of the first non-DST
\* time-type (time-type 0 when every one is DST) with dst_difference_secs 0,
\* and next_transition is the instant of the first body transition whose
\* offset, dst_difference_secs or abbreviation differs from that state, or
\* None when no body transition differs.
C5_BeforeFirstTransition ==
    (IsResolution(result) /\ NumTransitions > 0 /\ Lt(query, FirstTransitionTime)) =>
        /\ ReportsType(result, StandardOrFirstType)
        /\ result.dst_difference_secs = 0
        /\ result.next_transition = FirstDifferingFrom(0, result)

\* A call before the first transition of a zone whose time-types are all
\* DST, the first transition skipped as no change.
C5_Witness ==
    /\ IsResolution(result)
    /\ NumTransitions > 0
    /\ Lt(query, FirstTransitionTime)
    /\ \A k \in 1..Len(tz.body.time_type_infos) : tz.body.time_type_infos[k].is_dst
    /\ ~IsNone(result.next_transition)
    /\ result.next_transition # FirstTransitionTime

\* C6: for an instant t with first transition <= t <= last transition,
\* resolve reports the state of the transition found by
\* find_transition_index(t); next_transition is the instant of the first
\* later body transition whose offset, dst_difference_secs or abbreviation
\* differs from that state, and when none differs the footer's next boundary
\* after t if a footer exists, else None.
C6_BetweenTransitions ==
    (/\ IsResolution(result)
     /\ NumTransitions > 0
     /\ Le(FirstTransitionTime, query)
     /\ Le(query, LastTransitionTime)) =>
        \E i \in {find_transition_index(tz.body, query)[1]} :
            /\ ReportsState(result, TransitionState(tz.body, i))
            /\ result.next_transition =
                   IF IsNone(FirstDifferingFrom(i + 1, result)) /\ ~IsNone(tz.footer)
                   THEN _next_posix_transition_utc(tz.footer, query)
                   ELSE FirstDifferingFrom(i + 1, result)

\* C7: for a zone with body transitions and no footer, every instant
\* strictly after the last transition resolves to the last transition's
\* offset, DST flag and abbreviation, with next_transition None.
C7_AfterLastWithoutFooter ==
    (/\ IsResolution(result)
     /\ NumTransitions > 0
     /\ IsNone(tz.footer)
     /\ Lt(LastTransitionTime, query)) =>
        /\ ReportsType(result, TransitionTimeTypeInfo(tz.body, NumTransitions - 1))
        /\ IsNone(result.next_transition)

\* A call after the last transition of a footerless zone that ends in DST,
\* its first transition being of another offset.
C7_Witness ==
    /\ IsResolution(result)
    /\ NumTransitions > 1
    /\ IsNone(tz.footer)
    /\ Lt(LastTransitionTime, query)
    /\ result.is_dst
    /\ TransitionUtcOffsetSecs(tz.body, 0) # result.utc_offset_secs

\* C8: for a zone with no body transitions, resolve reports the POSIX
\* footer's state at t when a footer exists; without a footer it reports
\* the first non-DST time-type (else time-type 0) for every t, with
\* next_transition None.
C8_NoBodyTransitions ==
    (IsResolution(result) /\ NumTransitions = 0) =>
        IF IsNone(tz.footer)
        THEN /\ ReportsType(result, StandardOrFirstType)
             /\ IsNone(result.next_transition)
        ELSE ReportsState(result, _posix_footer_state(tz.footer, query))

\* A call on a footer-only zone at an instant of its DST period, and one on
\* a zone with neither transitions nor footer whose time-type 0 is DST.
C8_Witness ==
    /\ IsResolution(result)
    /\ NumTransitions = 0
    /\ \/ ~IsNone(tz.footer) /\ result.is_dst
       \/ IsNone(tz.footer) /\ tz.body.time_type_infos[1].is_dst

\* C9: for an instant served by a footer with both rules, with L = t +
\* standard offset, S = the start rule in year(L) and E = the end rule in
\* year(L) minus the DST delta, the zone is in DST iff S <= L < E when S < E,
\* and iff L >= S or L < E otherwise; in DST resolve reports the DST offset,
\* the DST abbreviation and dst_difference_secs = DST offset - standard
\* offset, otherwise the standard offset, the standard abbreviation and 0.
C9_FooterDstMembership ==
    (/\ IsResolution(result)
     /\ served \in {"case0", "case3"}
     /\ HasRules(tz.footer)) =>
        \E L \in {AddSeconds(query, tz.footer.utc_offset_secs)} :
        \E S \in {CivilTime(tz.footer.dst_start, YearOfOrd(L.d))} :
        \E E \in {AddSeconds(CivilTime(tz.footer.dst_end, YearOfOrd(L.d)),
                             -_posix_offsets(tz.footer).dst_delta)} :
            IF (IF Lt(S, E) THEN Le(S, L) /\ Lt(L, E) ELSE Le(S, L) \/ Lt(L, E))
            THEN /\ result.is_dst
                 /\ result.utc_offset_secs = _posix_offsets(tz.footer).dst_offset
                 /\ result.abbreviation = (IF tz.footer.dst_abbrev # <<>>
                                           THEN tz.footer.dst_abbrev
                                           ELSE tz.footer.standard_abbrev)
                 /\ result.dst_difference_secs =
                        _posix_offsets(tz.footer).dst_offset - tz.footer.utc_offset_secs
            ELSE /\ ~result.is_dst
                 /\ result.utc_offset_secs = tz.footer.utc_offset_secs
                 /\ result.abbreviation = tz.footer.standard_abbrev
                 /\ result.dst_difference_secs = 0

\* STD3DST,M10.1.0/2,M4.1.0/2 resolved in January: the start rule of the
\* year is after its end rule, and the zone is in DST.
C9_Witness ==
    /\ IsResolution(result)
    /\ served = "case0"
    /\ tz.footer = FooterSouth
    /\ query = At(2025, 1, 15, 0, 0, 0)
    /\ result.is_dst
    /\ Lt(CivilTime(FooterSouth.dst_end, 2025), CivilTime(FooterSouth.dst_start, 2025))

\* C10: for a footer with both rules, _next_posix_transition_utc(t) returns
\* the earliest rule boundary strictly after t among the start and end
\* rules of the local-standard year of t and of the following year (a
\* DST-start boundary is the start rule's civil time minus the standard
\* offset, a DST-end boundary the end rule's civil time minus the DST
\* offset); it returns None when the footer has no rules, and skips a year
\* whose rule lies outside the representable date range.
C10_NextPosixBoundary ==
    served = "next_posix" =>
        result = IF ~HasRules(tz.footer) THEN NoneVal
                 ELSE EarliestAfter(
                          UNION {BoundariesOfYear(tz.footer, y) :
                                    y \in {YearOfOrd(AddSeconds(query, tz.footer.utc_offset_secs).d),
                                           YearOfOrd(AddSeconds(query, tz.footer.utc_offset_secs).d) + 1}},
                          query)

\* ----------------------------------------------- leap seconds and resolve

\* The footer's first rule boundary strictly after t, or None.
FooterBoundaryAfter(t) ==
    IF ~HasRules(tz.footer) THEN NoneVal
    ELSE EarliestAfter(UNION {BoundariesOfYear(tz.footer, y) : y \in FooterYears}, t)

OrFooterBoundary(b, t) == IF IsNone(b) THEN FooterBoundaryAfter(t) ELSE b

\* The next transition the body and the footer give for the call of this
\* state: before the first transition the first body transition that
\* differs from the reported state; later that, or the footer's next
\* boundary when no body transition differs.
TransitionDerivedNext ==
    IF NumTransitions = 0 THEN FooterBoundaryAfter(query)
    ELSE IF Lt(query, FirstTransitionTime) THEN FirstDifferingFrom(0, result)
    ELSE OrFooterBoundary(
             FirstDifferingFrom(find_transition_index(tz.body, query)[1] + 1, result),
             query)

\* The next leap-second instant strictly after the query, the expiration
\* record not counted, or None.
NextLeapAfter == EarliestAfter(LeapInstants(tz.body), query)

\* The earlier of two optional instants.
EarlierOf(a, b) ==
    IF IsNone(a) THEN b
    ELSE IF IsNone(b) THEN a
    ELSE IF Lt(b, a) THEN b ELSE a

\* The leap-second instants of the zone and its expiration instant.
LeapMarks ==
    LeapInstants(tz.body)
    \cup (IF IsNone(tz.body.leap_second_expiration) THEN {}
          ELSE {tz.body.leap_second_expiration})

\* local_time is the queried instant moved by the reported offset, the
\* sub-second part kept.
LocalTimeIsShifted ==
    /\ result.resolution_time = query
    /\ result.local_time = AddSeconds(query, result.utc_offset_secs)

\* A call one second before a leap-second or expiration instant L and a
\* fresh call at L, within the second after L or one second after L, in
\* either order, report the same offset; with guarded, only when no
\* transition instant T has L - 1s < T <= the later of the two instants.
EqualOffsetsAroundLeaps(guarded) ==
    \A Ts \in {TransitionInstants} : \A L \in LeapMarks :
        \A b \in {AddSeconds(L, -1)} : \A a \in {L, WithMicro(L), AddSeconds(L, 1)} :
            (guarded => NoneBetween(Ts, b, a, TRUE)) =>
                /\ query = b =>
                       \A r \in {Fresh(a)} :
                           IsResolution(r) => r.utc_offset_secs = result.utc_offset_secs
                /\ query = a =>
                       \A r \in {Fresh(b)} :
                           IsResolution(r) => r.utc_offset_secs = result.utc_offset_secs

\* C11 (as stated): the next_transition reported by resolve(t) is the
\* earlier of the next transition the body and the footer give and the next
\* leap-second instant after t, the expiration record not counted.
C11_NextTransitionCountsLeaps ==
    IsResolution(result) =>
        result.next_transition = EarlierOf(TransitionDerivedNext, NextLeapAfter)

\* C11 (amended): the next_transition reported by resolve(t) is the next
\* transition the body and the footer give; leap-second instants are never
\* reported, so with no later transition and no footer rule next_transition
\* is None, before as well as at or after the expiration instant.
C11_NextTransitionIgnoresLeaps ==
    IsResolution(result) => result.next_transition = TransitionDerivedNext

\* A call before a leap-second instant that precedes the next transition,
\* or that no transition follows.
C11_Witness ==
    /\ IsResolution(result)
    /\ ~IsNone(NextLeapAfter)
    /\ \/ IsNone(result.next_transition)
       \/ Lt(NextLeapAfter, result.next_transition)

NumRecords == Len(query.raw)

LastTwoEqual == NumRecords >= 2 /\ query.raw[NumRecords] = query.raw[NumRecords - 1]

\* The records of a decoded table that carry the expiration mark.
Marked(leaps) == {k \in 1..Len(leaps) : IsExpiration(leaps[k])}

\* The decoded table marks no record and has no expiration instant.
NothingMarked == ~IsExc(result) /\ Marked(result.leaps) = {} /\ IsNone(result.expiration)

\* The decoded table marks its last record alone, the expiration instant
\* being the instant of that record.
LastMarked ==
    /\ ~IsExc(result)
    /\ Marked(result.leaps) = {NumRecords}
    /\ result.expiration = FromEpoch(query.raw[NumRecords])

\* datetime.min and datetime.max, and an instant of the file clamped to them.
MinDateTime == DateTime(1, 0, 0)

MaxDateTime == DateTime(MaxOrdinal, 86399, 999999)

Clamped(t) ==
    IF ~IsExc(FromEpoch(t)) THEN FromEpoch(t)
    ELSE IF t.days > 0 THEN MaxDateTime ELSE MinDateTime

C14_OutOfRangeInstantsClamp ==
    /\ served = "_read_transition_times" =>
           /\ ~IsExc(result)
           /\ \A k \in 1..NumRecords : result.value[k] = Clamped(query.raw[k])
    /\ served = "_read_leap_seconds" =>
           /\ ~IsExc(result)
           /\ IsNone(result.expiration) \/ result.expiration = Clamped(query.raw[NumRecords])
    /\ served = "find_leap_second_index" => ~IsExc(result)

\* C15: find_transition_index(t) over the non-decreasing transition
\* instants returns the largest index i with transition_times[i] <= t, the
\* last of several transitions at one instant, and None iff t is strictly
\* before the first transition or there is none; a naive t is its own UTC
\* instant, an aware one the instant its offset gives.
C15_LargestIndexNotAfter ==
    (served = "find_transition_index" /\ ~IsExc(result)) =>
        \A t \in {IF query.tzinfo = <<>> \/ query.tzinfo = <<0>> THEN query.dt
                  ELSE AddSeconds(query.dt, -query.tzinfo[1])} :
            \A at \in {{k \in 1..NumTransitions : Le(tz.body.transition_times[k], t)}} :
                IF at = {} THEN result.value = <<>>
                ELSE /\ Len(result.value) = 1
                     /\ result.value[1] + 1 \in at
                     /\ \A k \in at : k <= result.value[1] + 1

\* A lookup, with a naive datetime, of the instant two transitions share:
\* the index of the second is returned.
C15_Witness ==
    /\ served = "find_transition_index"
    /\ NumTransitions = 2
    /\ tz.body.transition_times[1] = tz.body.transition_times[2]
    /\ query.tzinfo = <<>>
    /\ query.dt = tz.body.transition_times[1]
    /\ result = [value |-> <<1>>]

\* The part of the raw table from index (counted from 0) up to the next
\* NUL, or to the end of the table when no NUL follows.
UpToNul(table, index) ==
    LET nuls == {k \in (index + 1)..Len(table) : table[k] = NUL}
    IN  SubSeq(table, index + 1,
               IF nuls = {} THEN Len(table)
               ELSE (CHOOSE k \in nuls : \A j \in nuls : k <= j) - 1)

\* The abbreviation of time-type k of the zone.
AbbrevOfType(k) == UpToNul(tz.body.timezone_abbrevs, tz.body.time_type_infos[k].abbrev_index)

\* The time-types whose abbreviation no earlier time-type has.
FirstOfTheirAbbrev ==
    {k \in 1..Len(tz.body.time_type_infos) :
        \A j \in 1..(k - 1) : AbbrevOfType(j) # AbbrevOfType(k)}

\* C16: the abbreviation for an index is the part of the raw table from
\* that index up to the next NUL, and timezone_abbrevs lists the
\* abbreviations of the time-types in time-type order, a value already
\* listed dropped; an index into the middle of an abbreviation gives the
\* shorter abbreviation that starts there.
C16_AbbreviationsByIndex ==
    /\ (served = "get_abbrev_by_index" /\ ~IsExc(result)) =>
           result.value = UpToNul(tz.body.timezone_abbrevs, query.index)
    /\ (served = "timezone_abbrevs" /\ ~IsExc(result)) =>
           /\ Len(result.value) = Cardinality(FirstOfTheirAbbrev)
           /\ \A k \in FirstOfTheirAbbrev :
                  result.value[Cardinality({j \in FirstOfTheirAbbrev : j <= k})]
                      = AbbrevOfType(k)

\* The table LMT, AHST, HDT with the indices 0, 4, 5: LMT, AHST, HST.
C16_Witness ==
    /\ served = "timezone_abbrevs"
    /\ tz.body.timezone_abbrevs =
           <<"L", "M", "T", NUL, "A", "H", "S", "T", NUL, "H", "D", "T", NUL>>
    /\ [k \in 1..Len(tz.body.time_type_infos) |-> tz.body.time_type_infos[k].abbrev_index]
           = <<0, 4, 5>>
    /\ result = [value |-> << <<"L", "M", "T">>, <<"A", "H", "S", "T">>, <<"H", "S", "T">> >>]

\* ------------------------------------------------------ the footer parser

\* h*3600 + m*60 + s of the parts the text of the call was written from.
TotalOfParts == query.h * 3600 + query.m * 60 + query.s

\* The parts of the text of the call break a constraint of an offset.
BadOffsetParts ==
    \/ query.h > 24
    \/ query.m > 59
    \/ query.s > 59
    \/ query.h = 24 /\ (query.m # 0 \/ query.s # 0)

\* C17: _read_offset on [sign]h[:mm[:ss]] returns -(h*3600 + m*60 + s) when
\* the sign is absent or "+" and +(h*3600 + m*60 + s) when it is "-"; it
\* raises ValueError when h > 24, when the minutes or the seconds are
\* outside 0..59, when h = 24 with minutes or seconds that are not 0, and
\* when the text is not of the grammar.
C17_ReadOffset ==
    served = "_read_offset" =>
        IF ~query.wellformed THEN result = Exc("ValueError")
        ELSE IF BadOffsetParts THEN result = Exc("ValueError")
        ELSE IF query.sign = "-" THEN result = [value |-> TotalOfParts]
        ELSE result = [value |-> -TotalOfParts]

\* -5:30 is 19800 seconds east of UTC.
C17_Witness ==
    /\ served = "_read_offset"
    /\ query.text = <<"-", "5", ":", "3", "0">>
    /\ result = [value |-> 19800]

\* C18: _read_dst_transition_time accepts hours 0..167 with minutes and
\* seconds 0..59 and returns (h, m, s), all three negated when the text
\* starts with "-"; it raises ValueError for hours above 167 and for
\* minutes or seconds of 60 or more.
C18_ReadDstTransitionTime ==
    served = "_read_dst_transition_time" /\ query.wellformed =>
        IF query.h > 167 \/ query.m >= 60 \/ query.s >= 60
        THEN result = Exc("ValueError")
        ELSE IF query.sign = "-"
        THEN result = [h |-> -query.h, m |-> -query.m, s |-> -query.s]
        ELSE result = [h |-> query.h, m |-> query.m, s |-> query.s]

\* -167:59:30 is (-167, -59, -30).
C18_Witness ==
    /\ served = "_read_dst_transition_time"
    /\ query.text = <<"-", "1", "6", "7", ":", "5", "9", ":", "3", "0">>
    /\ result = [h |-> -167, m |-> -59, s |-> -30]

\* The line of the call starts with a quoted abbreviation that has a comma
\* between its brackets.
CommaInBrackets ==
    /\ query.text # <<>>
    /\ query.text[1] = "<"
    /\ FirstIndexOf(query.text, ",") > 1
    /\ FirstIndexOf(query.text, ",") < FirstIndexOf(query.text, ">")

\* C19: read accepts a quoted abbreviation of letters, digits, "+", "-" and
\* "," and returns it without its brackets, the comma between the brackets
\* not taken as the separator of the rules: <UTC+05,30>-5:30 gives the
\* standard abbreviation UTC+05,30, 19800 seconds and no rules.
C19_CommaInQuotedAbbreviation ==
    /\ (served = "read" /\ CommaInBrackets) =>
           /\ ~IsExc(result)
           /\ ~IsNone(result)
           /\ result.standard_abbrev
                  = SubSeq(query.text, 2, FirstIndexOf(query.text, ">") - 1)
    /\ (served = "read"
        /\ query.text = <<"<", "U", "T", "C", "+", "0", "5", ",", "3", "0", ">", "-", "5", ":", "3", "0", "\n">>) =>
           result = PosixTzInfo(<<"U", "T", "C", "+", "0", "5", ",", "3", "0">>, 19800,
                                <<>>, <<>>, NoneVal, NoneVal)

\* The day of the month of the result of the call.
DayOfMonth == result.d - Ymd2Ord(query.year, query.rule.month, 1) + 1

\* C20: for a month/week/weekday rule at 00:00:00 and any year, to_datetime
\* returns a date in the month of the rule in that year whose weekday is
\* the weekday of the rule (0 = Sunday): its w-th occurrence in the month
\* for a week w of 1..4, its last occurrence in the month for week 5.
C20_MonthRuleDate ==
    (served = "to_datetime" /\ query.rule.kind = "M" /\ query.rule.hour = 0) =>
        /\ ~IsExc(result)
        /\ result.s = 0
        /\ DayOfMonth \in 1..DaysInMonth(query.year, query.rule.month)
        /\ result.d % 7 = query.rule.weekday
        /\ IF query.rule.week < 5
           THEN (DayOfMonth - 1) \div 7 = query.rule.week - 1
           ELSE DayOfMonth + 7 > DaysInMonth(query.year, query.rule.month)

\* The date of the month/week/weekday rule of the call: what to_datetime
\* gives for the rule at 00:00:00.
MidnightOfRule ==
    to_datetime([query.rule EXCEPT !.hour = 0, !.minute = 0, !.second = 0], query.year)

\* The time of the rule of the call as a duration in seconds.
DurationOfRule == TimeDelta(0, query.rule.hour, query.rule.minute, query.rule.second)

\* C21: for a month/week/weekday rule with any time of -167..167 hours,
\* to_datetime returns the date of the rule at midnight plus the hours,
\* minutes and seconds as a duration, so 24 hours or more land on a later
\* day and negative hours on an earlier one; it raises no error.
C21_TimeAsDuration ==
    (/\ served = "to_datetime"
     /\ query.rule.kind = "M"
     /\ ~IsExc(MidnightOfRule)
     /\ ~IsExc(AddSeconds(MidnightOfRule, DurationOfRule))) =>
        result = AddSeconds(MidnightOfRule, DurationOfRule)

\* The month and the day of day n of a year without a February 29.
JulianMonthDay(n) ==
    CHOOSE md \in (1..12) \X (1..31) :
        md[2] <= DaysInMonth(2023, md[1]) /\ DaysBeforeMonth(2023, md[1]) + md[2] = n

\* C22: a Julian rule Jn gives the same month and day in leap and non-leap
\* years and never February 29: January 1 plus n-1 days, plus one more day
\* when the year is a leap year and n >= 60.  The plain ordinal rule n is
\* January 1 plus exactly n days.
C22_JulianAndOrdinalDays ==
    /\ (served = "to_datetime" /\ query.rule.kind = "J") =>
           /\ result = DateTime(Ymd2Ord(query.year, JulianMonthDay(query.rule.day_of_year)[1],
                                        JulianMonthDay(query.rule.day_of_year)[2]),
                                query.rule.hour * 3600, 0)
           /\ result.d = Ymd2Ord(query.year, 1, 1) + query.rule.day_of_year - 1
                             + (IF _is_leap_year(query.year) /\ query.rule.day_of_year >= 60
                                THEN 1 ELSE 0)
    /\ (served = "to_datetime" /\ query.rule.kind = "N") =>
           result = AddSeconds(DateTime(Ymd2Ord(query.year, 1, 1), 0, 0),
                               TimeDelta(query.rule.day_index, query.rule.hour, 0, 0))

\* J60 in 2024 is March 1, and 59 in 2024 is February 29.
C22_Witness ==
    /\ served = "to_datetime"
    /\ query.year = 2024
    /\ \/ query.rule = PosixTzJulianDateTime(60, 0, 0, 0) /\ result = At(2024, 3, 1, 0, 0, 0)
       \/ query.rule = PosixTzOrdinalDateTime(59, 0, 0, 0) /\ result = At(2024, 2, 29, 0, 0, 0)

\* C23: parsing a date rule raises ValueError for every non-empty text that
\* is not a well-formed Mm.w.d with m in 1..12, w in 1..5 and d in 0..6, a
\* Jn with n in 1..365 or a bare ordinal n in 0..365; no malformed rule is
\* accepted or turned into "no rule".
C23_MalformedRuleRaises ==
    (/\ served = "_read_dst_transition_datetime"
     /\ query.text # <<>>
     /\ ~query.wellformed) =>
        result = Exc("ValueError")

\* ------------------------------------------- transitions and the cache

Abs(x) == IF x < 0 THEN -x ELSE x

\* What the claim gives as dst_difference_secs of transition i (from 0).
AbsoluteDstDifference(i) ==
    LET self == TransitionTimeTypeInfo(tz.body, i)
    IN  IF ~self.is_dst THEN 0
        ELSE IF i > 0 /\ TransitionTimeTypeInfo(tz.body, i - 1).is_dst
        THEN Abs(self.utc_offset_secs
                 - TransitionTimeTypeInfo(tz.body, i - 1).utc_offset_secs)
        ELSE IF i + 1 < NumTransitions /\ TransitionTimeTypeInfo(tz.body, i + 1).is_dst
        THEN Abs(TransitionTimeTypeInfo(tz.body, i + 1).utc_offset_secs
                 - self.utc_offset_secs)
        ELSE 3600

\* C24: dst_difference_secs of a transition to a DST time-type is the
\* absolute difference between its offset and that of the preceding
\* transition when that one is DST, else the absolute difference from the
\* following transition when that one is DST, else 3600, so it is never
\* negative; of a transition to a non-DST time-type it is 0.
\* It is read off the transition that a call between the transitions finds.
C24_DstDifferenceAbsolute ==
    (served = "case2" /\ IsResolution(result)) =>
        \A i \in {find_transition_index(tz.body, query)[1]} :
            /\ dst_difference_secs(tz.body, i) = AbsoluteDstDifference(i)
            /\ dst_difference_secs(tz.body, i) >= 0
            /\ result.dst_difference_secs >= 0

\* The slot cache serves the instant t: it is filled, and t in whole
\* seconds is its instant or lies from its instant up to, not including,
\* its next transition.
Serves(cache, t) ==
    /\ ~IsNone(cache)
    /\ \/ cache.cache_key = [t EXCEPT !.us = 0]
       \/ /\ ~IsNone(cache.resolution.next_transition)
          /\ Le(cache.cache_key, [t EXCEPT !.us = 0])
          /\ Lt([t EXCEPT !.us = 0], cache.resolution.next_transition)

\* res is the cached resolution moved to the instant t.
CachedAt(cache, t, res) ==
    /\ res.utc_offset_secs = cache.resolution.utc_offset_secs
    /\ res.is_dst = cache.resolution.is_dst
    /\ res.abbreviation = cache.resolution.abbreviation
    /\ res.dst_difference_secs = cache.resolution.dst_difference_secs
    /\ res.next_transition = cache.resolution.next_transition
    /\ res.resolution_time = t
    /\ res.local_time = AddSeconds(t, cache.resolution.utc_offset_secs)

\* C25: a call resolve(t) is served from the cache exactly when a cached
\* entry exists and t in whole seconds is its instant, or its
\* next_transition is not None and cached instant <= t < next_transition;
\* the result of a hit carries the cached offset, DST flag, abbreviation,
\* dst_difference_secs and next_transition, with resolution_time t and
\* local_time t plus the cached offset.  An entry without next_transition
\* serves its own second only.
C25_CacheHitRule ==
    [][ /\ (served' \in {"exact", "range"}) <=> Serves(last_resolution, query')
        /\ (Serves(last_resolution, query') /\ IsResolution(result')) =>
               CachedAt(last_resolution, query', result') ]_vars

\* A hit of the range cache at an instant that is not the cached one.
C25_Witness ==
    /\ served = "range"
    /\ IsResolution(result)
    /\ last_resolution.cache_key # [query EXCEPT !.us = 0]
    /\ result.resolution_time = query

\* The slot holds t in whole seconds together with res.
SlotHolds(cache, t, res) ==
    cache = TimeZoneResolutionCache([t EXCEPT !.us = 0], res)

\* C26: after every resolve(t) call that returns, hit or miss, the cache
\* slot holds t truncated to whole seconds together with the Resolution
\* returned for t.
C26_SlotHoldsLastCall ==
    (served # "none" /\ IsResolution(result)) =>
        SlotHolds(last_resolution, query, result)

\* C26, amended: a resolve(t) call that misses the cache and returns
\* leaves in the slot t truncated to whole seconds together with the
\* Resolution it returned; a call served from the cache leaves the slot as
\* it was.
C26_SlotSetOnMissKeptOnHit ==
    [][ IsResolution(result') =>
            IF served' \in {"exact", "range"}
            THEN last_resolution' = last_resolution
            ELSE SlotHolds(last_resolution', query', result') ]_vars

\* A call served from the cache whose result is not what the slot holds.
C26_Witness ==
    /\ served \in {"exact", "range"}
    /\ IsResolution(result)
    /\ last_resolution.resolution # result

\* C27: every Resolution returned by resolve whose next_transition is not
\* None has next_transition strictly later than its resolution_time,
\* whichever case or cache path served the call.
C27_NextTransitionLater ==
    (IsResolution(result) /\ ~IsNone(result.next_transition)) =>
        Lt(result.resolution_time, result.next_transition)

\* A call at a footer boundary itself, answered with the boundary after it.
C27_Witness ==
    /\ served \in {"case0", "case3"}
    /\ IsResolution(result)
    /\ ~IsNone(result.next_transition)
    /\ IsResolution(Fresh(AddSeconds(query, -1)))
    /\ Fresh(AddSeconds(query, -1)).next_transition = query

\* a and b report the same offset, dst_difference_secs and abbreviation.
SameState(a, b) ==
    /\ a.utc_offset_secs = b.utc_offset_secs
    /\ a.dst_difference_secs = b.dst_difference_secs
    /\ a.abbreviation = b.abbreviation

\* The next_transition N of res, returned for t, is the first real change:
\* every instant asked in [t, N) has the state of res, and a fresh
\* resolve(N) has another.
RealAndFirst(res, t) ==
    ~IsNone(res.next_transition) =>
        /\ \A u \in Queries(tz) :
               (Le(t, u) /\ Lt(u, res.next_transition)) =>
                   \A r \in {Fresh(u)} : IsResolution(r) => SameState(r, res)
        /\ \A r \in {Fresh(res.next_transition)} :
               IsResolution(r) => ~SameState(r, res)

\* C28: the next_transition N reported by resolve(t) is a real change and
\* the first one: the state is unchanged throughout [t, N), and a fresh
\* resolve(N) differs from resolve(t) in utc_offset_secs,
\* dst_difference_secs or abbreviation; also when t is at or before the
\* last body transition, every later body transition is a no-op and N
\* comes from the POSIX footer.
C28_NextTransitionRealAndFirst ==
    IsResolution(result) => RealAndFirst(result, query)

\* C29: every Resolution returned by resolve with is_dst False has
\* dst_difference_secs 0, whichever case or cache path served the call; and
\* the initial state reported before the first transition has
\* dst_difference_secs 0, also when every time-type is DST.
C29_NoDstNoDifference ==
    IsResolution(result) =>
        /\ ~result.is_dst => result.dst_difference_secs = 0
        /\ served = "case1" => result.dst_difference_secs = 0

\* A call in the standard period of a footer with rules, served by the
\* footer.
C29_Witness ==
    /\ served \in {"case0", "case3"}
    /\ HasRules(tz.footer)
    /\ IsResolution(result)
    /\ ~result.is_dst
    /\ result.dst_difference_secs = 0

\* The call of this state was served by a footer with both rules and no
\* explicit DST offset.
ServedByDefaultDst ==
    /\ served \in {"case0", "case3"}
    /\ IsResolution(result)
    /\ HasRules(tz.footer)
    /\ tz.footer.dst_offset_secs = <<>>

\* The ends of the DST periods of a footer as UTC instants, the rule's
\* civil time being read with the offset dst_offset.
DstEnds(f, dst_offset) ==
    {Shifted(CivilTime(f.dst_end, y), -dst_offset) : y \in FooterYears}

\* C30: when the footer gives no explicit DST offset, resolve and the
\* next-boundary search use the standard offset + 3600 seconds as DST
\* offset: inside the DST period resolve reports is_dst True, the standard
\* offset + 3600 and dst_difference_secs 3600, with the DST abbreviation or,
\* when the footer has none, the standard abbreviation; and the end of the
\* period it reports is the end rule's civil time less the standard offset
\* + 3600.  Outside the period it reports the standard offset.
C30_DefaultDstOffset ==
    ServedByDefaultDst =>
        IF result.is_dst
        THEN /\ result.utc_offset_secs = tz.footer.utc_offset_secs + 3600
             /\ result.dst_difference_secs = 3600
             /\ result.abbreviation = IF tz.footer.dst_abbrev # <<>>
                                      THEN tz.footer.dst_abbrev
                                      ELSE tz.footer.standard_abbrev
             /\ ~IsNone(result.next_transition) =>
                    result.next_transition \in
                        DstEnds(tz.footer, tz.footer.utc_offset_secs + 3600)
        ELSE result.utc_offset_secs = tz.footer.utc_offset_secs

\* A call inside the DST period of a footer that has both rules and neither
\* a DST abbreviation nor a DST offset.
C30_Witness ==
    /\ ServedByDefaultDst
    /\ tz.footer.dst_abbrev = <<>>
    /\ result.is_dst
    /\ ~IsNone(result.next_transition)

====
